---- MODULE Spec2Model ----
(***************************************************************************)
(* Tax-lien ingestion: the file adapter's column mapping and row           *)
(* transformation (src/src/adapters/file_ingestor.py), the canonical       *)
(* record and batch model (src/src/models/lien.py), the adapter registry   *)
(* (src/src/config.py), the adapters' construction-time region check       *)
(* (src/src/adapters/base.py) and the browser session of an interactive    *)
(* adapter (src/src/adapters/lienhub.py).                                  *)
(*                                                                         *)
(* Conventions.  A Python str is a sequence of one-character strings.  An  *)
(* Optional value is a sequence of length 0 (None) or 1; an Optional[str]  *)
(* is the string itself with <<>> for None, which is exact wherever the    *)
(* code only tests truthiness.  A float amount is an integer number of     *)
(* hundredths, arithmetic is exact (binary floating-point error is outside *)
(* the model).  A dict is the sequence of its <<key, value>> items in      *)
(* insertion order.                                                        *)
(***************************************************************************)
EXTENDS Integers, Sequences, FiniteSets, TLC

VARIABLES
    state,              \* LienSource.state
    county,             \* LienSource.county
    columns,            \* df.columns of the loaded table
    rows,               \* the rows of df: each a function header -> cell
    column_overrides,   \* FileIngestorAdapter.column_overrides
    score,              \* the similarity scorer: score[header][target]
    auto_mappings,      \* what _detect_column_mappings returned in fetch
    scan_log,           \* per target, what its scan looked at and chose
    detected_mappings,  \* FileIngestorAdapter._detected_mappings
    batches,            \* the LienBatch objects that exist
    last_call,          \* the last call made: operation, receiver, arguments
    pc,                 \* "constructed" | "fetched" | "start" | "model" | "idle"
    lien_call,          \* the last TaxLien(...) call: its arguments and outcome
    parse_call,         \* the last _parse_numeric(...) call
    resolve_call,       \* the last get_adapter_for_state / adapter constructor call
    adapters,           \* the adapter instances that exist
    session,            \* the browser session of a scraping fetch
    fetch_call          \* the fetch calls made or under way, one record each

vars == <<state, county, columns, rows, column_overrides, score,
          auto_mappings, scan_log, detected_mappings, batches, last_call, pc,
          lien_call, parse_call, resolve_call, adapters, session, fetch_call>>

\* nothing but the file adapter and the batch model is in use
NoSession ==
    [pc |-> "idle", playwright |-> "none", browser |-> "none",
     context |-> "none", page |-> "none", outcome |-> "none",
     failed_at |-> "none", pending |-> FALSE, max_records |-> 0,
     pages |-> 0, liens |-> 0, credentials |-> FALSE, turns |-> 0]

OthersIdle ==
    /\ lien_call = <<>>
    /\ parse_call = <<>>
    /\ resolve_call = <<>>
    /\ adapters = <<>>
    /\ session = NoSession
    /\ fetch_call = <<>>

(***************************************************************************)
(* Strings                                                                 *)
(***************************************************************************)
UpperChars == <<"A", "B", "C", "D", "E", "F", "G", "H", "I", "J", "K", "L", "M", "N", "O", "P", "Q", "R", "S", "T", "U", "V", "W", "X", "Y", "Z">>

LowerChars == <<"a", "b", "c", "d", "e", "f", "g", "h", "i", "j", "k", "l", "m", "n", "o", "p", "q", "r", "s", "t", "u", "v", "w", "x", "y", "z">>

Chars(s) == {s[i] : i \in 1..Len(s)}

ToLower ==
    [c \in Chars(UpperChars) |->
        LowerChars[CHOOSE i \in 1..Len(UpperChars) : UpperChars[i] = c]]

ToUpper ==
    [c \in Chars(LowerChars) |->
        UpperChars[CHOOSE i \in 1..Len(LowerChars) : LowerChars[i] = c]]

LowerChar(c) == IF c \in DOMAIN ToLower THEN ToLower[c] ELSE c

UpperChar(c) == IF c \in DOMAIN ToUpper THEN ToUpper[c] ELSE c

\* str.lower()
Lower(s) == [i \in 1..Len(s) |-> LowerChar(s[i])]

\* str.upper()
Upper(s) == [i \in 1..Len(s) |-> UpperChar(s[i])]

IsSpace(c) == c \in {" ", "\t", "\n"}

\* str.strip()
Strip(s) ==
    LET keep == {i \in 1..Len(s) : ~IsSpace(s[i])}
    IN  IF keep = {} THEN <<>>
        ELSE LET first == CHOOSE i \in keep : \A j \in keep : i <= j
                 last  == CHOOSE i \in keep : \A j \in keep : j <= i
             IN  SubSeq(s, first, last)

\* the values of a sequence
Range(s) == {s[i] : i \in 1..Len(s)}

(***************************************************************************)
(* FileIngestorAdapter.COLUMN_CANDIDATES, in declaration order             *)
(***************************************************************************)
Candidates_parcel_id ==
    << <<"p", "a", "r", "c", "e", "l", " ", "i", "d">>,
       <<"p", "a", "r", "c", "e", "l", " ", "n", "u", "m", "b", "e", "r">>,
       <<"p", "a", "r", "c", "e", "l">>,
       <<"p", "a", "r", "c", "e", "l", " ", "#">>,
       <<"p", "i", "n">>,
       <<"p", "r", "o", "p", "e", "r", "t", "y", " ", "i", "n", "d", "e", "x", " ", "n", "u", "m", "b", "e", "r">>,
       <<"a", "p", "n">>,
       <<"a", "s", "s", "e", "s", "s", "o", "r", " ", "p", "a", "r", "c", "e", "l", " ", "n", "u", "m", "b", "e", "r">>,
       <<"a", "c", "c", "o", "u", "n", "t", " ", "n", "u", "m", "b", "e", "r">>,
       <<"a", "c", "c", "o", "u", "n", "t">>,
       <<"t", "a", "x", " ", "i", "d">>,
       <<"p", "r", "o", "p", "e", "r", "t", "y", " ", "i", "d">>,
       <<"c", "e", "r", "t", "i", "f", "i", "c", "a", "t", "e", " ", "n", "u", "m", "b", "e", "r">>,
       <<"c", "e", "r", "t", " ", "#">>,
       <<"k", "e", "y", " ", "n", "u", "m", "b", "e", "r">> >>

Candidates_address ==
    << <<"p", "r", "o", "p", "e", "r", "t", "y", " ", "a", "d", "d", "r", "e", "s", "s">>,
       <<"a", "d", "d", "r", "e", "s", "s">>,
       <<"s", "i", "t", "u", "s", " ", "a", "d", "d", "r", "e", "s", "s">>,
       <<"l", "o", "c", "a", "t", "i", "o", "n">>,
       <<"p", "r", "o", "p", "e", "r", "t", "y", " ", "l", "o", "c", "a", "t", "i", "o", "n">>,
       <<"s", "t", "r", "e", "e", "t", " ", "a", "d", "d", "r", "e", "s", "s">>,
       <<"s", "t", "r", "e", "e", "t">>,
       <<"s", "i", "t", "e", " ", "a", "d", "d", "r", "e", "s", "s">> >>

Candidates_assessed_value ==
    << <<"a", "s", "s", "e", "s", "s", "e", "d", " ", "v", "a", "l", "u", "e">>,
       <<"a", "s", "s", "e", "s", "s", "e", "d">>,
       <<"t", "o", "t", "a", "l", " ", "a", "s", "s", "e", "s", "s", "e", "d", " ", "v", "a", "l", "u", "e">>,
       <<"j", "u", "s", "t", " ", "v", "a", "l", "u", "e">>,
       <<"m", "a", "r", "k", "e", "t", " ", "v", "a", "l", "u", "e">>,
       <<"p", "r", "o", "p", "e", "r", "t", "y", " ", "v", "a", "l", "u", "e">>,
       <<"t", "a", "x", "a", "b", "l", "e", " ", "v", "a", "l", "u", "e">>,
       <<"t", "o", "t", "a", "l", " ", "v", "a", "l", "u", "e">>,
       <<"f", "a", "i", "r", " ", "m", "a", "r", "k", "e", "t", " ", "v", "a", "l", "u", "e">>,
       <<"f", "m", "v">> >>

Candidates_face_amount ==
    << <<"f", "a", "c", "e", " ", "a", "m", "o", "u", "n", "t">>,
       <<"f", "a", "c", "e", " ", "v", "a", "l", "u", "e">>,
       <<"t", "a", "x", " ", "a", "m", "o", "u", "n", "t">>,
       <<"a", "m", "o", "u", "n", "t", " ", "d", "u", "e">>,
       <<"t", "o", "t", "a", "l", " ", "d", "u", "e">>,
       <<"t", "o", "t", "a", "l", " ", "t", "a", "x">>,
       <<"t", "a", "x", "e", "s", " ", "d", "u", "e">>,
       <<"d", "e", "l", "i", "n", "q", "u", "e", "n", "t", " ", "a", "m", "o", "u", "n", "t">>,
       <<"m", "i", "n", "i", "m", "u", "m", " ", "b", "i", "d">>,
       <<"o", "p", "e", "n", "i", "n", "g", " ", "b", "i", "d">>,
       <<"u", "p", "s", "e", "t", " ", "p", "r", "i", "c", "e">>,
       <<"r", "e", "d", "e", "m", "p", "t", "i", "o", "n", " ", "a", "m", "o", "u", "n", "t">>,
       <<"l", "i", "e", "n", " ", "a", "m", "o", "u", "n", "t">> >>

Candidates_interest_rate_bid ==
    << <<"i", "n", "t", "e", "r", "e", "s", "t", " ", "r", "a", "t", "e">>,
       <<"r", "a", "t", "e">>,
       <<"b", "i", "d", " ", "r", "a", "t", "e">>,
       <<"w", "i", "n", "n", "i", "n", "g", " ", "r", "a", "t", "e">>,
       <<"b", "i", "d", " ", "%">>,
       <<"i", "n", "t", "e", "r", "e", "s", "t", " ", "%">> >>

Candidates_auction_date ==
    << <<"a", "u", "c", "t", "i", "o", "n", " ", "d", "a", "t", "e">>,
       <<"s", "a", "l", "e", " ", "d", "a", "t", "e">>,
       <<"t", "a", "x", " ", "s", "a", "l", "e", " ", "d", "a", "t", "e">>,
       <<"d", "a", "t", "e">> >>

Candidates_county ==
    << <<"c", "o", "u", "n", "t", "y">>,
       <<"c", "o", "u", "n", "t", "y", " ", "n", "a", "m", "e">> >>

TargetOrder ==
    <<"parcel_id", "address", "assessed_value", "face_amount",
      "interest_rate_bid", "auction_date", "county">>

Targets == Range(TargetOrder)

COLUMN_CANDIDATES ==
    [t \in Targets |->
        CASE t = "parcel_id"         -> Candidates_parcel_id
          [] t = "address"           -> Candidates_address
          [] t = "assessed_value"    -> Candidates_assessed_value
          [] t = "face_amount"       -> Candidates_face_amount
          [] t = "interest_rate_bid" -> Candidates_interest_rate_bid
          [] t = "auction_date"      -> Candidates_auction_date
          [] t = "county"            -> Candidates_county]

FUZZY_THRESHOLD == 70

ExactScore == 100

\* [c.lower() for c in candidates], as the set the membership test reads
LoweredCandidates ==
    [t \in Targets |-> {Lower(c) : c \in Range(COLUMN_CANDIDATES[t])}]

(***************************************************************************)
(* Inputs: observed headers and the similarity scorer                      *)
(***************************************************************************)
H_PIN == <<"P", "I", "N">>

H_Date == <<" ", "D", "a", "t", "e">>

H_AmtDue == <<"A", "m", "t", " ", "D", "u", "e">>

HeaderPool == {H_PIN, H_Date, H_AmtDue}

\* df.columns: the non-empty lists of distinct headers
HeaderLists ==
    UNION {{s \in [1..n -> HeaderPool] : \A i, j \in 1..n : i # j => s[i] # s[j]}
           : n \in 1..Cardinality(HeaderPool)}

\* at most MaxFuzzy (header, target) pairs have a non-zero similarity, the
\* target among FuzzyTargets
MaxFuzzy == 2

FuzzyTargets == {"parcel_id", "face_amount", "interest_rate_bid", "auction_date"}

FuzzyScores == {FUZZY_THRESHOLD - 1, FUZZY_THRESHOLD, 100}

ZeroScore == [h \in HeaderPool |-> [t \in Targets |-> 0]]

RECURSIVE ScoreFns(_, _)
ScoreFns(cols, k) ==
    IF k = 0 THEN {ZeroScore}
    ELSE LET prev == ScoreFns(cols, k - 1)
         IN  prev \cup
             {[f EXCEPT ![h][t] = s] :
                f \in prev, h \in Range(cols), t \in FuzzyTargets, s \in FuzzyScores}

(***************************************************************************)
(* FileIngestorAdapter._detect_column_mappings                             *)
(***************************************************************************)
\* a scan that skips nothing
UnclaimedAny(col, used) == TRUE

\* line 208: a header already claimed is skipped
Unclaimed(col, used) == col \notin used

\* lines 211-214: case-insensitive, trimmed membership in the synonym list
IsExact(col, t) == Strip(Lower(col)) \in LoweredCandidates[t]

\* lines 220-224: process.extractOne(col_lower, candidates, fuzz.ratio)[1]
ExtractOneScore(sc, col, t) == sc[col][t]

\* a scan that replaces its best header on an equal score
BetterOrEqual(result, best_score) == result >= best_score

\* line 225
Better(result, best_score) == result > best_score

\* line 229
QualifiesAlways(best_match, best_score) == best_match # <<>>

Qualifies(best_match, best_score) ==
    best_match # <<>> /\ best_score >= FUZZY_THRESHOLD

\* lines 204-227: the scan of one target over the columns, from column j on
RECURSIVE ScanColumns(_, _, _, _, _, _, _, _)
ScanColumns(t, cols, sc, used, j, best_match, best_score, seen) ==
    IF j > Len(cols)
    THEN [best_match |-> best_match, best_score |-> best_score, considered |-> seen]
    ELSE LET col == cols[j]
         IN  IF ~Unclaimed(col, used)
             THEN ScanColumns(t, cols, sc, used, j + 1, best_match, best_score, seen)
             ELSE IF IsExact(col, t)
             THEN [best_match |-> col, best_score |-> ExactScore,
                   considered |-> seen \cup {col}]
             ELSE LET result == ExtractOneScore(sc, col, t)
                  IN  IF Better(result, best_score)
                      THEN ScanColumns(t, cols, sc, used, j + 1, col, result,
                                       seen \cup {col})
                      ELSE ScanColumns(t, cols, sc, used, j + 1, best_match,
                                       best_score, seen \cup {col})

\* dict[key] = value: an existing key keeps its place, a new one goes last
DictSet(d, k, v) ==
    IF \E i \in 1..Len(d) : d[i][1] = k
    THEN [i \in 1..Len(d) |-> IF d[i][1] = k THEN <<k, v>> ELSE d[i]]
    ELSE Append(d, <<k, v>>)

DictKeys(d) == {d[i][1] : i \in 1..Len(d)}

DictValues(d) == {d[i][2] : i \in 1..Len(d)}

\* d[k], for k a key of d
DictGet(d, k) == d[CHOOSE i \in 1..Len(d) : d[i][1] = k][2]

\* lines 203-231: the targets from index i on, in declaration order
RECURSIVE DetectFrom(_, _, _, _, _, _)
DetectFrom(cols, sc, i, mappings, used, log) ==
    IF i > Len(TargetOrder)
    THEN [mappings |-> mappings, log |-> log]
    ELSE LET t    == TargetOrder[i]
             best == ScanColumns(t, cols, sc, used, 1, <<>>, 0, {})
             hit  == Qualifies(best.best_match, best.best_score)
             entry == [target |-> t, considered |-> best.considered,
                       best_match |-> best.best_match,
                       best_score |-> best.best_score, claimed |-> hit]
         IN  IF hit
             THEN DetectFrom(cols, sc, i + 1,
                             DictSet(mappings, best.best_match, t),
                             used \cup {best.best_match}, Append(log, entry))
             ELSE DetectFrom(cols, sc, i + 1, mappings, used, Append(log, entry))

\* lines 189-233; .mappings is the returned dict, .log the scans that built it
DetectColumnMappings(cols, sc) == DetectFrom(cols, sc, 1, <<>>, {}, <<>>)

(***************************************************************************)
(* TaxLien (src/src/models/lien.py)                                        *)
(***************************************************************************)
S(a, b) == <<a, b>>

SUPPORTED_STATES ==
    <<S("I","L"), S("F","L"), S("A","Z"), S("N","J"), S("I","N"),
      S("C","O"), S("I","A"), S("M","S"), S("A","L"), S("S","C")>>

IsLetter(c) == LowerChar(c) # UpperChar(c)

\* str.title()
Title(s) ==
    [i \in 1..Len(s) |->
        IF i = 1 \/ ~IsLetter(s[i - 1]) THEN UpperChar(s[i]) ELSE LowerChar(s[i])]

\* a validator that compares the code as written, without upper()
ValidateStateExact(v) ==
    IF v \in Range(SUPPORTED_STATES) THEN <<v>> ELSE <<>>

\* lines 78-85: the state validator; <<>> when it raises
ValidateState(v) ==
    IF Upper(v) \in Range(SUPPORTED_STATES) THEN <<Upper(v)>> ELSE <<>>

\* lines 87-91
NormalizeCounty(v) == Title(Strip(v))

\* lines 102-103: round(face_amount / assessed_value * 100, 2), in hundredths,
\* ties to even
RoundDiv(n, d) ==
    LET q == n \div d
        r == n % d
    IN  IF 2 * r > d \/ (2 * r = d /\ q % 2 = 1) THEN q + 1 ELSE q

\* lines 93-104
LtvDefined(lien) ==
    lien.assessed_value # <<>> /\ lien.assessed_value[1] # 0
        /\ lien.assessed_value[1] > 0

TruncDiv(n, d) == n \div d

LtvRound(n, d) == RoundDiv(n, d)

lien_to_value_ratio(lien) ==
    IF LtvDefined(lien)
    THEN <<LtvRound(lien.face_amount * 10000, lien.assessed_value[1])>>
    ELSE <<>>

\* lines 106-116
equity_cushion(lien) ==
    IF lien_to_value_ratio(lien) # <<>>
    THEN <<10000 - lien_to_value_ratio(lien)[1]>>
    ELSE <<>>

\* a field accepted without its constraint
OptUnchecked(x) == TRUE

\* Optional[float] with ge=0
OptGe0(x) == x = <<>> \/ x[1] >= 0

\* Optional[float] with ge=0, le=100 (in hundredths)
OptRate(x) == x = <<>> \/ (x[1] >= 0 /\ x[1] <= 10000)

\* lines 54-58: face_amount is required (`...`) with ge=0; <<>> is None
FaceOk(face) == face # <<>> /\ face[1] >= 0

\* lines 21-91: TaxLien(...); <<>> when validation raises, else <<record>>.
\* The constraints of a field (lines 29-64) are checked before its validator
\* (lines 78-91) runs.
TaxLien(st, cty, parcel, address, assessed, face, rate, auction, raw) ==
    LET okState  == Len(st) = 2 /\ ValidateState(st) # <<>>
        okCounty == Len(cty) >= 1
        okParcel == Len(parcel) >= 1
        okNums   == /\ OptGe0(assessed)
                    /\ FaceOk(face)
                    /\ OptRate(rate)
    IN  IF okState /\ okCounty /\ okParcel /\ okNums
        THEN <<[state |-> ValidateState(st)[1],
                county |-> NormalizeCounty(cty),
                parcel_id |-> parcel,
                address |-> address,
                assessed_value |-> assessed,
                face_amount |-> face[1],
                interest_rate_bid |-> rate,
                auction_date |-> auction,
                raw_data |-> raw]>>
        ELSE <<>>

\* the values the validation error of the state field names: the input
\* (pydantic's input_value) and, when the validator raised, the upper-cased
\* value of the message of line 84; {} when the field is accepted
StateErrorNames(st) ==
    IF Len(st) # 2 THEN {st}
    ELSE IF ValidateState(st) = <<>> THEN {st, Upper(st)}
    ELSE {}

\* the fields the ValidationError of TaxLien(...) reports
TaxLienErrors(st, cty, parcel, assessed, face, rate) ==
    [state |-> StateErrorNames(st),
     county |-> Len(cty) < 1,
     parcel_id |-> Len(parcel) < 1,
     assessed_value |-> ~OptGe0(assessed),
     face_amount |-> ~FaceOk(face),
     interest_rate_bid |-> ~OptRate(rate)]

(***************************************************************************)
(* FileIngestorAdapter._parse_numeric                                      *)
(***************************************************************************)
Digits == <<"0", "1", "2", "3", "4", "5", "6", "7", "8", "9">>

IsDigit(c) == \E i \in 1..Len(Digits) : Digits[i] = c

DigitVal(c) == (CHOOSE i \in 1..Len(Digits) : Digits[i] = c) - 1

\* re.sub of a character class: the characters outside `drop`, in order
RECURSIVE RemoveChars(_, _)
RemoveChars(s, drop) ==
    IF s = <<>> THEN <<>>
    ELSE IF Head(s) \in drop THEN RemoveChars(Tail(s), drop)
    ELSE <<Head(s)>> \o RemoveChars(Tail(s), drop)

RECURSIVE DigitsToNat(_)
DigitsToNat(ds) ==
    IF ds = <<>> THEN 0
    ELSE 10 * DigitsToNat(SubSeq(ds, 1, Len(ds) - 1)) + DigitVal(ds[Len(ds)])

AllDigits(s) == \A i \in 1..Len(s) : IsDigit(s[i])

\* float(s) for plain decimal text with at most two fractional digits, in
\* hundredths; <<>> when float() raises ValueError.  Exponents, inf, nan and
\* underscores are not in the cells of this model.
ParseFloat(s) ==
    LET signed == s # <<>> /\ s[1] \in {"-", "+"}
        body   == IF signed THEN Tail(s) ELSE s
        dots   == {i \in 1..Len(body) : body[i] = "."}
        dot    == IF dots = {} THEN Len(body) + 1 ELSE CHOOSE i \in dots : TRUE
        whole  == SubSeq(body, 1, dot - 1)
        frac   == SubSeq(body, dot + 1, Len(body))
        ok     == /\ Cardinality(dots) <= 1
                  /\ AllDigits(whole) /\ AllDigits(frac)
                  /\ Len(whole) + Len(frac) >= 1
                  /\ Len(frac) <= 2
        cents  == IF Len(frac) = 0 THEN 0
                  ELSE IF Len(frac) = 1 THEN 10 * DigitVal(frac[1])
                  ELSE DigitsToNat(frac)
        mag    == 100 * DigitsToNat(whole) + cents
    IN  IF ~ok THEN <<>>
        ELSE IF signed /\ s[1] = "-" THEN <<0 - mag>> ELSE <<mag>>

\* lines 299-309
ParseNumeric(value) ==
    IF value = <<>> THEN <<>>
    ELSE LET cleaned == RemoveChars(value, {"$", ",", "%", " ", "\t", "\n"})
         IN  IF cleaned = <<>> THEN <<>> ELSE ParseFloat(cleaned)

(***************************************************************************)
(* FileIngestorAdapter.fetch and _transform_dataframe                      *)
(***************************************************************************)
\* an override that yields to a header the automatic pass already mapped
RECURSIVE ApplyOverridesIfUnmapped(_, _, _)
ApplyOverridesIfUnmapped(mappings, overrides, cols) ==
    IF overrides = <<>> THEN mappings
    ELSE LET source_col   == Head(overrides)[1]
             target_field == Head(overrides)[2]
         IN  IF source_col \in Range(cols) /\ source_col \notin DictKeys(mappings)
             THEN ApplyOverridesIfUnmapped(DictSet(mappings, source_col, target_field),
                                          Tail(overrides), cols)
             ELSE ApplyOverridesIfUnmapped(mappings, Tail(overrides), cols)

\* lines 145-148: the overrides whose header is an observed column, in order
RECURSIVE ApplyOverrides(_, _, _)
ApplyOverrides(mappings, overrides, cols) ==
    IF overrides = <<>> THEN mappings
    ELSE LET source_col   == Head(overrides)[1]
             target_field == Head(overrides)[2]
         IN  IF source_col \in Range(cols)
             THEN ApplyOverrides(DictSet(mappings, source_col, target_field),
                                 Tail(overrides), cols)
             ELSE ApplyOverrides(mappings, Tail(overrides), cols)

\* line 247: {v: k for k, v in mappings.items()}, read at one target; the
\* last item with that value wins, <<>> when there is none
ReverseMap(mappings, t) ==
    LET at == {i \in 1..Len(mappings) : mappings[i][2] = t}
    IN  IF at = {} THEN <<>>
        ELSE mappings[CHOOSE i \in at : \A j \in at : j <= i][1]

\* lines 285-297; a missing cell (NaN) is <<>>
GetMappedValue(row, mappings, cols, t) ==
    LET source_col == ReverseMap(mappings, t)
    IN  IF source_col # <<>> /\ source_col \in Range(cols)
        THEN row[source_col]
        ELSE <<>>

\* lines 311-322: pandas.to_datetime(value, errors="coerce"); a date is kept
\* as the text it was read from, text without a digit is no date
ParseDate(value) ==
    IF value = <<>> THEN <<>>
    ELSE IF \E i \in 1..Len(value) : IsDigit(value[i]) THEN <<Strip(value)>>
    ELSE <<>>

\* `x or y` on Optional[str]
OrElse(x, y) == IF x # <<>> THEN x ELSE y

Unknown == <<"U", "n", "k", "n", "o", "w", "n">>

\* line 266-268: _parse_numeric(...) or 0.0
FaceOrZero(x) == IF x = <<>> \/ x[1] = 0 THEN 0 ELSE x[1]

\* a row transformation without the skip of line 255-256: str(None) is "None"
TransformRowNoSkip(row, mappings, cols, st, cty) ==
    LET parcel_id == OrElse(GetMappedValue(row, mappings, cols, "parcel_id"),
                            <<"N", "o", "n", "e">>)
    IN  TaxLien(st,
                OrElse(GetMappedValue(row, mappings, cols, "county"),
                       OrElse(cty, Unknown)),
                Strip(parcel_id),
                GetMappedValue(row, mappings, cols, "address"),
                ParseNumeric(GetMappedValue(row, mappings, cols, "assessed_value")),
                <<FaceOrZero(ParseNumeric(
                    GetMappedValue(row, mappings, cols, "face_amount")))>>,
                ParseNumeric(GetMappedValue(row, mappings, cols, "interest_rate_bid")),
                ParseDate(GetMappedValue(row, mappings, cols, "auction_date")),
                row)

\* lines 250-281: one row; <<>> when the row is skipped, else <<lien>>
TransformRow(row, mappings, cols, st, cty) ==
    LET parcel_id == GetMappedValue(row, mappings, cols, "parcel_id")
    IN  IF parcel_id = <<>> THEN <<>>
        ELSE TaxLien(st,
                     OrElse(GetMappedValue(row, mappings, cols, "county"),
                            OrElse(cty, Unknown)),
                     Strip(parcel_id),
                     GetMappedValue(row, mappings, cols, "address"),
                     ParseNumeric(GetMappedValue(row, mappings, cols, "assessed_value")),
                     <<FaceOrZero(ParseNumeric(
                         GetMappedValue(row, mappings, cols, "face_amount")))>>,
                     ParseNumeric(GetMappedValue(row, mappings, cols, "interest_rate_bid")),
                     ParseDate(GetMappedValue(row, mappings, cols, "auction_date")),
                     row)

\* a row loop that ends at the first row it cannot build
RECURSIVE TransformFromUntilFailure(_, _, _, _, _, _)
TransformFromUntilFailure(rws, i, mappings, cols, st, cty) ==
    IF i > Len(rws) THEN <<>>
    ELSE IF TransformRow(rws[i], mappings, cols, st, cty) = <<>> THEN <<>>
    ELSE TransformRow(rws[i], mappings, cols, st, cty)
            \o TransformFromUntilFailure(rws, i + 1, mappings, cols, st, cty)

\* lines 244-283: the liens of the rows from index i on, in row order
RECURSIVE TransformFrom(_, _, _, _, _, _)
TransformFrom(rws, i, mappings, cols, st, cty) ==
    IF i > Len(rws) THEN <<>>
    ELSE TransformRow(rws[i], mappings, cols, st, cty)
            \o TransformFrom(rws, i + 1, mappings, cols, st, cty)

TransformDataframe(rws, mappings, cols, st, cty) ==
    TransformFrom(rws, 1, mappings, cols, st, cty)

(***************************************************************************)
(* LienBatch (src/src/models/lien.py)                                      *)
(***************************************************************************)
LienBatch(liens, source_url, scrape_timestamp, state_filter, county_filter) ==
    [liens |-> liens, source_url |-> source_url,
     scrape_timestamp |-> scrape_timestamp,
     state_filter |-> state_filter, county_filter |-> county_filter]

\* lines 128-131
count(b) == Len(b.liens)

RECURSIVE SumSeq(_)
SumSeq(s) == IF s = <<>> THEN 0 ELSE Head(s) + SumSeq(Tail(s))

\* line 141: `if lien.lien_to_value_ratio` is Python truthiness
LtvCounted(lien) ==
    lien_to_value_ratio(lien) # <<>> /\ lien_to_value_ratio(lien)[1] # 0

\* lines 138-144, in hundredths
avg_ltv(b) ==
    LET Counted(lien) == LtvCounted(lien)
        kept == SelectSeq(b.liens, Counted)
        ltvs == [i \in 1..Len(kept) |-> lien_to_value_ratio(kept[i])[1]]
    IN  IF ltvs # <<>> THEN <<RoundDiv(SumSeq(ltvs), Len(ltvs))>> ELSE <<>>

\* lines 150-151
LtvKeepUndefined(lien, max_ltv) ==
    lien_to_value_ratio(lien) = <<>> \/ lien_to_value_ratio(lien)[1] <= max_ltv

LtvKeep(lien, max_ltv) ==
    lien_to_value_ratio(lien) # <<>> /\ lien_to_value_ratio(lien)[1] <= max_ltv

\* lines 146-159
filter_by_ltv(b, max_ltv) ==
    LET Keep(lien) == LtvKeep(lien, max_ltv)
    IN  LienBatch(SelectSeq(b.liens, Keep), b.source_url, b.scrape_timestamp,
                  b.state_filter, b.county_filter)

\* lines 161-173
filter_by_face_amount(b, min_amt, max_amt) ==
    LET Keep(lien) == min_amt <= lien.face_amount /\ lien.face_amount <= max_amt
    IN  LienBatch(SelectSeq(b.liens, Keep), b.source_url, b.scrape_timestamp,
                  b.state_filter, b.county_filter)

\* lines 146-173 assign no attribute of self: the receiver after a filter call
SelfAfterFilterInPlace(b, filtered) == [b EXCEPT !.liens = filtered.liens]

SelfAfterFilter(b, filtered) == b

(***************************************************************************)
(* Inputs of the file adapter                                              *)
(***************************************************************************)
FL == S("F", "L")

Duval == <<" ", "d", "u", "v", "a", "l">>

FilePath == <<"l", ".", "c", "s", "v">>

Today == <<"2", "0", "2", "6">>

Cell_7 == <<"7">>

Cell_Blank == <<" ">>

Cell_1250 == <<"$", "1", ",", "2", "5", "0", ".", "0", "0">>

Cell_Neg5 == <<"-", "5">>

Cell_Date == <<"1", "/", "2">>

NaN == <<>>

\* the rows a table is made of: a plain row, one without a parcel cell, one
\* with a blank parcel cell, one with a negative amount
MakeRow(p, a) ==
    [h \in HeaderPool |->
        CASE h = H_PIN -> p [] h = H_Date -> Cell_Date [] h = H_AmtDue -> a]

RowPool ==
    {MakeRow(Cell_7, Cell_1250), MakeRow(NaN, Cell_1250),
     MakeRow(Cell_Blank, Cell_1250), MakeRow(Cell_7, Cell_Neg5)}

MaxRows == 2

RECURSIVE SeqsUpTo(_, _)
SeqsUpTo(set, n) ==
    IF n = 0 THEN {<<>>}
    ELSE LET shorter == SeqsUpTo(set, n - 1)
         IN  shorter \cup {Append(s, x) : s \in shorter, x \in set}

\* a row of df holds the cells of the observed columns
RowOf(r, cols) == [h \in Range(cols) |-> r[h]]

Tables(cols) ==
    {[i \in 1..Len(rs) |-> RowOf(rs[i], cols)] : rs \in SeqsUpTo(RowPool, MaxRows)}

OverrideTargets == {"parcel_id", "face_amount", "county"}

MaxOverrides == 1

\* column_overrides: a dict, so no header twice
OverrideDicts ==
    {d \in SeqsUpTo({H_PIN, H_AmtDue} \X OverrideTargets, MaxOverrides) :
        \A i, j \in 1..Len(d) : i # j => d[i][1] # d[j][1]}

\* the scorers of the ingestion runs: "Amt Due" against face_amount
FetchScores ==
    {[ZeroScore EXCEPT ![H_AmtDue]["face_amount"] = s] :
        s \in {0, FUZZY_THRESHOLD - 1, FUZZY_THRESHOLD}}

(***************************************************************************)
(* Inputs of the batch model                                               *)
(***************************************************************************)
FaceVals == {0, 1, 2}

AssessedVals == {<<>>, <<0>>, <<300>>, <<800>>}

LienPool ==
    {TaxLien(FL, Duval, Cell_7, <<>>, a, <<f>>, <<>>, <<>>, <<>>)[1] :
        f \in FaceVals, a \in AssessedVals}

MaxLiens == 2

MaxBatches == 3

LtvCeilings == {0, 33, 10000}

FaceRanges == {<<0, 0>>, <<1, 2>>, <<2, 1>>}

(***************************************************************************)
(* The state machine                                                       *)
(***************************************************************************)
\* the header lists of the ingestion runs
FetchLists ==
    {<<H_PIN, H_AmtDue>>, <<H_AmtDue, H_PIN>>, <<H_Date, H_AmtDue>>,
     <<H_PIN, H_Date, H_AmtDue>>}

\* lines 109-130: FileIngestorAdapter(state, county, file_path,
\* column_overrides) constructed, no fetch yet
Constructed ==
    /\ state = Upper(FL)
    /\ auto_mappings = <<>>
    /\ scan_log = <<>>
    /\ detected_mappings = <<>>
    /\ batches = <<>>
    /\ last_call = [op |-> "init", src |-> 0, args |-> <<>>]
    /\ pc = "constructed"

InitMap ==
    /\ Constructed
    /\ OthersIdle
    /\ county = <<>>
    /\ columns \in HeaderLists
    /\ rows = <<>>
    /\ column_overrides = <<>>
    /\ score \in ScoreFns(columns, MaxFuzzy)

InitFetch ==
    /\ Constructed
    /\ OthersIdle
    /\ county \in {<<>>, Duval}
    /\ columns \in FetchLists
    /\ rows \in Tables(columns)
    /\ column_overrides \in OverrideDicts
    /\ score \in FetchScores

InitBatch ==
    /\ OthersIdle
    /\ state = Upper(FL)
    /\ county = <<>>
    /\ columns = <<>>
    /\ rows = <<>>
    /\ column_overrides = <<>>
    /\ score = ZeroScore
    /\ auto_mappings = <<>>
    /\ scan_log = <<>>
    /\ detected_mappings = <<>>
    /\ batches = <<>>
    /\ last_call = [op |-> "init", src |-> 0, args |-> <<>>]
    /\ pc = "start"

\* lines 132-159
Fetch ==
    /\ pc = "constructed"
    /\ \E auto \in {DetectColumnMappings(columns, score)} :
       \E final \in {ApplyOverrides(auto.mappings, column_overrides, columns)} :
          /\ auto_mappings' = auto.mappings
          /\ scan_log' = auto.log
          /\ detected_mappings' = final
          /\ batches' =
                Append(batches,
                       LienBatch(TransformDataframe(rows, final, columns, state, county),
                                 FilePath, Today, state, county))
    /\ last_call' = [op |-> "fetch", src |-> 0, args |-> <<>>]
    /\ pc' = "fetched"
    /\ UNCHANGED <<state, county, columns, rows, column_overrides, score>>
    /\ UNCHANGED <<lien_call, parse_call, resolve_call, adapters, session, fetch_call>>

\* lines 119-126: LienBatch(liens=[TaxLien(...), ...], ...) built from
\* validated records
CreateBatch ==
    /\ pc = "start"
    /\ \E liens \in SeqsUpTo(LienPool, MaxLiens) :
          batches' = <<LienBatch(liens, FilePath, Today, state, <<>>)>>
    /\ last_call' = [op |-> "LienBatch", src |-> 0, args |-> <<>>]
    /\ pc' = "model"
    /\ UNCHANGED <<state, county, columns, rows, column_overrides, score,
                   auto_mappings, scan_log, detected_mappings>>
    /\ UNCHANGED <<lien_call, parse_call, resolve_call, adapters, session, fetch_call>>

\* batches[i].filter_by_ltv(max_ltv)
FilterByLtv ==
    /\ pc = "model"
    /\ Len(batches) < MaxBatches
    /\ \E i \in 1..Len(batches), max_ltv \in LtvCeilings :
          LET filtered == filter_by_ltv(batches[i], max_ltv)
          IN  /\ batches' = Append([batches EXCEPT
                                       ![i] = SelfAfterFilter(batches[i], filtered)],
                                   filtered)
              /\ last_call' = [op |-> "filter_by_ltv", src |-> i,
                               args |-> <<max_ltv>>]
    /\ UNCHANGED <<state, county, columns, rows, column_overrides, score,
                   auto_mappings, scan_log, detected_mappings, pc>>
    /\ UNCHANGED <<lien_call, parse_call, resolve_call, adapters, session, fetch_call>>

\* batches[i].filter_by_face_amount(min_amt, max_amt)
FilterByFaceAmount ==
    /\ pc = "model"
    /\ Len(batches) < MaxBatches
    /\ \E i \in 1..Len(batches), r \in FaceRanges :
          LET filtered == filter_by_face_amount(batches[i], r[1], r[2])
          IN  /\ batches' = Append([batches EXCEPT
                                       ![i] = SelfAfterFilter(batches[i], filtered)],
                                   filtered)
              /\ last_call' = [op |-> "filter_by_face_amount", src |-> i, args |-> r]
    /\ UNCHANGED <<state, county, columns, rows, column_overrides, score,
                   auto_mappings, scan_log, detected_mappings, pc>>
    /\ UNCHANGED <<lien_call, parse_call, resolve_call, adapters, session, fetch_call>>

NextFetch == Fetch

NextBatch == CreateBatch \/ FilterByLtv \/ FilterByFaceAmount

\* the column-mapping pass over every header list and scorer
SpecMap == InitMap /\ [][NextFetch]_vars

\* file ingestion: tables, overrides and the resulting batch
Spec == InitFetch /\ [][NextFetch]_vars

\* batches of records and their filters
SpecBatch == InitBatch /\ [][NextBatch]_vars

(***************************************************************************)
(* Properties                                                              *)
(***************************************************************************)
\* the (header, target) items of the automatic pass of the last fetch
AutoPairs == Range(auto_mappings)

\* C1: in the automatic pass an exact (case-insensitive, trimmed) synonym
\* match outranks a fuzzy match whatever the fuzzy score: a header that is an
\* exact synonym of target T is never awarded to another target on a fuzzy
\* score, and T is never mapped to a merely fuzzy-matching header while an
\* observed exact-matching header is not mapped to T.
C1_ExactNeverLostToFuzzy ==
    pc = "fetched" =>
        \A pr \in AutoPairs :
            /\ \A t \in Targets :
                  (IsExact(pr[1], t) /\ t # pr[2]) => IsExact(pr[1], pr[2])
            /\ ~IsExact(pr[1], pr[2]) =>
                  ~\E h \in Range(columns) : IsExact(h, pr[2])

\* C1, the part the code keeps: when target T is scanned, an exact-matching
\* header that is still unclaimed beats every fuzzy score
C1_ExactWinsWithinScan ==
    pc = "fetched" =>
        \A i \in 1..Len(scan_log) :
            (\E h \in scan_log[i].considered : IsExact(h, scan_log[i].target))
                => /\ scan_log[i].claimed
                   /\ IsExact(scan_log[i].best_match, scan_log[i].target)

\* the batch the last fetch returned
Fetched == batches[Len(batches)]

\* line 147: the overrides whose header is an observed column
AppliedOverrides == {o \in Range(column_overrides) : o[1] \in Range(columns)}

\* C2: after fetch, every override whose header is an observed column decides
\* the mapping of that header, whatever the automatic pass did with it.
C2_OverrideWins ==
    pc = "fetched" =>
        \A o \in AppliedOverrides :
            /\ o[1] \in DictKeys(detected_mappings)
            /\ DictGet(detected_mappings, o[1]) = o[2]

\* C2 witness: an override re-mapped a header the automatic pass had claimed
\* for another target
C2_Witness ==
    /\ pc = "fetched"
    /\ \E o \in AppliedOverrides :
          /\ o[1] \in DictKeys(auto_mappings)
          /\ DictGet(auto_mappings, o[1]) # o[2]
          /\ DictGet(detected_mappings, o[1]) = o[2]

\* the headers claimed by the scans before scan i
ClaimedBefore(i) ==
    {scan_log[k].best_match : k \in {k \in 1..(i - 1) : scan_log[k].claimed}}

\* C3: the automatic mapping is one-to-one (no header twice, no target
\* twice), it is exactly what the scans claimed, and a header claimed by one
\* target is never considered by a later target.
C3_OneToOne ==
    pc = "fetched" =>
        /\ \A i, j \in 1..Len(auto_mappings) :
              i # j => /\ auto_mappings[i][1] # auto_mappings[j][1]
                       /\ auto_mappings[i][2] # auto_mappings[j][2]
        /\ AutoPairs = {<<scan_log[i].best_match, scan_log[i].target>> :
                           i \in {k \in 1..Len(scan_log) : scan_log[k].claimed}}
        /\ \A i \in 1..Len(scan_log) :
              scan_log[i].considered \cap ClaimedBefore(i) = {}

\* the similarity of a header for a target: 100 for an exact synonym
HeaderScore(h, t) == IF IsExact(h, t) THEN ExactScore ELSE score[h][t]

\* C3 witness: two headers were claimed, and the first-claimed one also
\* reached the threshold for a later target, which did not get it
C3_Witness ==
    /\ pc = "fetched"
    /\ Len(auto_mappings) >= 2
    /\ \E i, j \in 1..Len(scan_log) :
          /\ i < j
          /\ scan_log[i].claimed
          /\ HeaderScore(scan_log[i].best_match, scan_log[j].target) >= FUZZY_THRESHOLD
          /\ scan_log[i].best_match \notin scan_log[j].considered

\* the value a record holds for a target field
Attr(lien, t) ==
    CASE t = "parcel_id"         -> lien.parcel_id
      [] t = "address"           -> lien.address
      [] t = "assessed_value"    -> lien.assessed_value
      [] t = "face_amount"       -> <<lien.face_amount>>
      [] t = "interest_rate_bid" -> lien.interest_rate_bid
      [] t = "auction_date"      -> lien.auction_date
      [] t = "county"            -> lien.county

\* a target is mapped by the automatic pass only to a header that scores at
\* least the threshold for it, and a target whose unclaimed headers all score
\* below it stays unmapped
ThresholdRespected ==
    /\ \A pr \in AutoPairs : HeaderScore(pr[1], pr[2]) >= FUZZY_THRESHOLD
    /\ \A i \in 1..Len(scan_log) :
          (\A h \in Range(columns) \ ClaimedBefore(i) :
                HeaderScore(h, scan_log[i].target) < FUZZY_THRESHOLD)
             => scan_log[i].target \notin DictValues(auto_mappings)

\* C4 as stated: the threshold is respected, fetch returns, and every record
\* has every target that stays unmapped undefined (face_amount 0.0 instead).
C4_UnmappedUndefined ==
    pc = "fetched" =>
        /\ ThresholdRespected
        /\ Len(batches) = 1
        /\ \A t \in Targets \ DictValues(detected_mappings) :
              \A k \in 1..Len(Fetched.liens) :
                 Attr(Fetched.liens[k], t) =
                    (IF t = "face_amount" THEN <<0>> ELSE <<>>)

\* what a record holds for a field no column supplies
DefaultAttr(t) ==
    CASE t = "face_amount" -> <<0>>
      [] t = "county"      -> NormalizeCounty(IF county # <<>> THEN county ELSE Unknown)
      [] OTHER             -> <<>>

\* C4 amended: the threshold is respected, fetch returns, and every record
\* has every target that stays unmapped undefined, except face_amount, which
\* is 0.0, and county, which is the adapter's county label (normalized) or
\* "Unknown".
C4_UnmappedDefaults ==
    pc = "fetched" =>
        /\ ThresholdRespected
        /\ Len(batches) = 1
        /\ \A t \in Targets \ DictValues(detected_mappings) :
              \A k \in 1..Len(Fetched.liens) :
                 Attr(Fetched.liens[k], t) = DefaultAttr(t)

\* C4 witness: "Amt Due" scores 69 for face_amount, stays unmapped, and a
\* record was built with face_amount 0.0
C4_Witness ==
    /\ pc = "fetched"
    /\ H_AmtDue \in Range(columns)
    /\ score[H_AmtDue]["face_amount"] = FUZZY_THRESHOLD - 1
    /\ "face_amount" \notin DictValues(detected_mappings)
    /\ Len(Fetched.liens) >= 1
    /\ Fetched.liens[1].face_amount = 0

\* the cell a row supplies for a target under the mapping of the last fetch
Mapped(row, t) == GetMappedValue(row, detected_mappings, columns, t)

\* the row has a resolvable, non-empty parcel_id
HasParcel(row) == Strip(Mapped(row, "parcel_id")) # <<>>

\* the numbers the row supplies pass the record's validation
FieldsValid(row) ==
    LET assessed == ParseNumeric(Mapped(row, "assessed_value"))
        face     == ParseNumeric(Mapped(row, "face_amount"))
        rate     == ParseNumeric(Mapped(row, "interest_rate_bid"))
    IN  /\ assessed = <<>> \/ assessed[1] >= 0
        /\ face = <<>> \/ face[1] >= 0
        /\ rate = <<>> \/ (rate[1] >= 0 /\ rate[1] <= 10000)

\* C5 as stated: the count of the fetched batch is the number of rows with a
\* resolvable, non-empty parcel_id, and only rows without one are missing.
C5_CountIsRowsWithParcel ==
    pc = "fetched" =>
        /\ count(Fetched) = Cardinality({i \in 1..Len(rows) : HasParcel(rows[i])})
        /\ \A i \in 1..Len(rows) :
              HasParcel(rows[i]) =>
                 \E k \in 1..Len(Fetched.liens) : Fetched.liens[k].raw_data = rows[i]

\* C5 amended: the count of the fetched batch is the number of rows that have
\* a resolvable, non-empty parcel_id and whose record passes validation; a
\* row is missing only if it lacks such a parcel_id or fails validation.
C5_CountIsValidRowsWithParcel ==
    pc = "fetched" =>
        /\ count(Fetched) =
              Cardinality({i \in 1..Len(rows) :
                              HasParcel(rows[i]) /\ FieldsValid(rows[i])})
        /\ \A i \in 1..Len(rows) :
              (HasParcel(rows[i]) /\ FieldsValid(rows[i])) =>
                 \E k \in 1..Len(Fetched.liens) : Fetched.liens[k].raw_data = rows[i]

\* C5 witness: one row was dropped for no parcel_id, another for a value
\* that fails validation
C5_Witness ==
    /\ pc = "fetched"
    /\ \E i \in 1..Len(rows) : ~HasParcel(rows[i])
    /\ \E i \in 1..Len(rows) : HasParcel(rows[i]) /\ ~FieldsValid(rows[i])
    /\ count(Fetched) = 0

\* the row builds a record under the mapping of the last fetch
Constructs(row) ==
    TransformRow(row, detected_mappings, columns, state, county) # <<>>

\* C6: once the table is loaded fetch returns a batch, whose records are the
\* rows that construct successfully, each built from its own row alone, in
\* source-row order; a failing row removes only itself.
C6_RowFailuresStayLocal ==
    pc = "fetched" =>
        /\ Len(batches) = 1
        /\ [k \in 1..Len(Fetched.liens) |-> Fetched.liens[k].raw_data]
              = SelectSeq(rows, Constructs)
        /\ \A k \in 1..Len(Fetched.liens) :
              <<Fetched.liens[k]>> =
                 TransformRow(Fetched.liens[k].raw_data, detected_mappings,
                              columns, state, county)

\* C6 witness: the first row failed validation and the second row is the
\* only record of the batch
C6_Witness ==
    /\ pc = "fetched"
    /\ Len(rows) = 2
    /\ HasParcel(rows[1]) /\ ~Constructs(rows[1])
    /\ Constructs(rows[2])
    /\ Len(Fetched.liens) = 1
    /\ Fetched.liens[1].raw_data = rows[2]

\* every record of every batch
AllLiens == UNION {Range(batches[i].liens) : i \in 1..Len(batches)}

Abs(x) == IF x < 0 THEN 0 - x ELSE x

\* C7: lien_to_value_ratio is defined exactly when assessed_value is present
\* and > 0, and is then face_amount / assessed_value * 100 rounded to two
\* decimals (the nearest hundredth); equity_cushion is 100 minus the ratio
\* when the ratio is defined and undefined otherwise.
C7_LtvAndEquity ==
    \A lien \in AllLiens :
        LET r == lien_to_value_ratio(lien)
            a == lien.assessed_value
        IN  /\ (r # <<>>) <=> (a # <<>> /\ a[1] > 0)
            /\ r # <<>> =>
                  /\ 2 * Abs(r[1] * a[1] - lien.face_amount * 10000) <= a[1]
                  /\ equity_cushion(lien) = <<10000 - r[1]>>
            /\ r = <<>> => equity_cushion(lien) = <<>>

\* C7 witness: a batch holds a record whose ratio rounds up (2 / 300 is
\* 0.67 %) and a record with assessed_value 0, whose ratio is undefined
C7_Witness ==
    /\ pc = "model"
    /\ \E lien \in AllLiens :
          /\ lien.face_amount = 2 /\ lien.assessed_value = <<300>>
          /\ lien_to_value_ratio(lien) = <<67>>
          /\ equity_cushion(lien) = <<9933>>
    /\ \E lien \in AllLiens :
          lien.assessed_value = <<0>> /\ lien_to_value_ratio(lien) = <<>>

\* the defined ratios of a batch, in record order
DefinedLtvs(b) ==
    LET Defined(lien) == lien.assessed_value # <<>> /\ lien.assessed_value[1] > 0
        kept == SelectSeq(b.liens, Defined)
    IN  [i \in 1..Len(kept) |-> lien_to_value_ratio(kept[i])[1]]

\* C8: avg_ltv of a batch is the mean (to two decimals) of all its defined
\* ratios, a ratio of 0 included, and is undefined exactly when no record
\* has a defined ratio.
C8_AvgLtvOverAllDefined ==
    \A i \in 1..Len(batches) :
        avg_ltv(batches[i]) =
            (IF DefinedLtvs(batches[i]) = <<>> THEN <<>>
             ELSE <<RoundDiv(SumSeq(DefinedLtvs(batches[i])),
                             Len(DefinedLtvs(batches[i])))>>)

\* the last call was a filter; its receiver and its result
Filtered == last_call.op \in {"filter_by_ltv", "filter_by_face_amount"}

FilterSource == batches[last_call.src]

FilterResult == batches[Len(batches)]

\* C9: filter_by_ltv(ceiling) returns the source records whose ratio is
\* defined and <= ceiling, in their original order; a record with an
\* undefined ratio is excluded.
C9_FilterByLtv ==
    last_call.op = "filter_by_ltv" =>
        LET Within(lien) ==
                /\ lien.assessed_value # <<>>
                /\ lien.assessed_value[1] > 0
                /\ lien_to_value_ratio(lien)[1] <= last_call.args[1]
        IN  FilterResult.liens = SelectSeq(FilterSource.liens, Within)

\* C9 witness: of a record with an undefined ratio and a record under the
\* ceiling, the filter kept only the second
C9_Witness ==
    /\ last_call.op = "filter_by_ltv"
    /\ Len(FilterSource.liens) = 2
    /\ lien_to_value_ratio(FilterSource.liens[1]) = <<>>
    /\ lien_to_value_ratio(FilterSource.liens[2]) # <<>>
    /\ FilterResult.liens = <<FilterSource.liens[2]>>

\* C10: a filter call changes no existing batch (records and metadata), and
\* the batch it returns carries the source_url, scrape_timestamp,
\* state_filter and county_filter of the batch it was derived from.
C10_FilteringIsPure ==
    [][(last_call'.op \in {"filter_by_ltv", "filter_by_face_amount"}
            /\ Len(batches') = Len(batches) + 1)
          => /\ \A i \in 1..Len(batches) : batches'[i] = batches[i]
             /\ LET src == batches[last_call'.src]
                    res == batches'[Len(batches')]
                IN  /\ res.source_url = src.source_url
                    /\ res.scrape_timestamp = src.scrape_timestamp
                    /\ res.state_filter = src.state_filter
                    /\ res.county_filter = src.county_filter]_vars

\* C10 witness: after two filter calls, the last one dropped records of its
\* source, which still holds them
C10_Witness ==
    /\ Filtered
    /\ Len(batches) = 3
    /\ Len(FilterResult.liens) < Len(FilterSource.liens)
    /\ FilterSource.source_url = FilePath

(***************************************************************************)
(* Constructing records: TaxLien(...) called with arbitrary arguments      *)
(***************************************************************************)
\* the file adapter and the batch model before any use
FileIdle ==
    /\ state = <<>>
    /\ county = <<>>
    /\ columns = <<>>
    /\ rows = <<>>
    /\ column_overrides = <<>>
    /\ score = ZeroScore
    /\ auto_mappings = <<>>
    /\ scan_log = <<>>
    /\ detected_mappings = <<>>
    /\ batches = <<>>
    /\ last_call = [op |-> "init", src |-> 0, args |-> <<>>]
    /\ pc = "idle"

fileVars ==
    <<state, county, columns, rows, column_overrides, score, auto_mappings,
      scan_log, detected_mappings, batches, last_call, pc>>

\* region codes in several letter cases, and strings outside the set
StateArgs ==
    {S("F", "L"), S("f", "l"), S("F", "l"), S("s", "c"), S("s", "C"),
     S("X", "X"), S("t", "x"), <<"f", "l", "a">>, <<"F">>, <<" ", "F", "L">>}

CountyArgs ==
    {Duval, <<"D", "U", "V", "A", "L", " ">>, <<"d", "u", "v", "a", "l">>,
     <<" ">>, <<>>}

ParcelArgs ==
    {<<" ", "a", "b", "1", " ">>, <<"A", "B", "1">>, <<"a", "b", "1">>,
     <<" ">>, <<>>}

FaceArgs == {<<>>, <<0 - 1>>, <<0>>, <<125000>>}

AssessedArgs == {<<>>, <<0 - 1>>, <<0>>, <<300>>}

RateArgs == {<<>>, <<0 - 1>>, <<0>>, <<10000>>, <<10001>>}

InitRecord ==
    /\ FileIdle
    /\ OthersIdle

\* lines 21-91: one TaxLien(...) call
Construct ==
    /\ pc = "idle"
    /\ lien_call = <<>>
    /\ \E st \in StateArgs, cty \in CountyArgs, parcel \in ParcelArgs,
          assessed \in AssessedArgs, face \in FaceArgs, rate \in RateArgs :
          lien_call' =
            <<[args |-> [state |-> st, county |-> cty, parcel_id |-> parcel,
                         assessed_value |-> assessed, face_amount |-> face,
                         interest_rate_bid |-> rate],
               out |-> TaxLien(st, cty, parcel, <<>>, assessed, face, rate,
                               <<>>, <<>>),
               errors |-> TaxLienErrors(st, cty, parcel, assessed, face, rate)]>>
    /\ UNCHANGED <<fileVars, parse_call, resolve_call, adapters, session, fetch_call>>

\* lines 119-126: LienBatch(liens=[lien]) around the record just constructed
Collect ==
    /\ pc = "idle"
    /\ lien_call # <<>>
    /\ lien_call[1].out # <<>>
    /\ batches = <<>>
    /\ batches' = <<LienBatch(lien_call[1].out, FilePath, Today,
                              lien_call[1].out[1].state, <<>>)>>
    /\ last_call' = [op |-> "LienBatch", src |-> 0, args |-> <<>>]
    /\ UNCHANGED <<state, county, columns, rows, column_overrides, score,
                   auto_mappings, scan_log, detected_mappings, pc,
                   lien_call, parse_call, resolve_call, adapters, session,
                   fetch_call>>

NextRecord == Construct \/ Collect

\* record construction over every combination of arguments
SpecRecord == InitRecord /\ [][NextRecord]_vars

\* the last TaxLien(...) call, its arguments and what it returned
Called == lien_call # <<>>

Args == lien_call[1].args

Out == lien_call[1].out

\* a supported region code written in any letter case
SupportedAnyCase(st) ==
    \E i \in 1..Len(SUPPORTED_STATES) :
        /\ Len(st) = 2
        /\ \A k \in 1..2 : st[k] \in {LowerChar(SUPPORTED_STATES[i][k]),
                                      UpperChar(SUPPORTED_STATES[i][k])}

\* the arguments other than the region code are acceptable
OtherArgsValid ==
    /\ ~lien_call[1].errors.county
    /\ ~lien_call[1].errors.parcel_id
    /\ ~lien_call[1].errors.assessed_value
    /\ ~lien_call[1].errors.face_amount
    /\ ~lien_call[1].errors.interest_rate_bid

\* C11: a supported region code in any letter case is accepted and stored
\* upper-cased (the record exists whenever the other arguments are valid);
\* any other string makes the construction fail with a validation error on
\* the state field that names the offending value.
C11_StateValidation ==
    Called =>
        IF SupportedAnyCase(Args.state)
        THEN /\ lien_call[1].errors.state = {}
             /\ OtherArgsValid => /\ Out # <<>>
                                  /\ Out[1].state = Upper(Args.state)
                                  /\ Out[1].state \in Range(SUPPORTED_STATES)
        ELSE /\ Out = <<>>
             /\ Args.state \in lien_call[1].errors.state

\* a lower-case code was accepted and stored upper-cased
C11_Witness ==
    /\ Called
    /\ Args.state = S("s", "c")
    /\ Out # <<>>
    /\ Out[1].state = S("S", "C")

\* the records that exist: the one just constructed and those of the batches
Records ==
    (IF Called /\ Out # <<>> THEN {Out[1]} ELSE {})
        \cup UNION {Range(batches[i].liens) : i \in 1..Len(batches)}

\* C12: every record that exists, in a batch or not, has face_amount >= 0,
\* assessed_value absent or >= 0 and interest_rate_bid absent or within
\* [0, 100]; a call with a missing or negative face_amount, a negative
\* assessed_value or a rate outside [0, 100] produces no record.
C12_NumericInvariants ==
    /\ \A lien \in Records :
          /\ lien.face_amount >= 0
          /\ lien.assessed_value = <<>> \/ lien.assessed_value[1] >= 0
          /\ lien.interest_rate_bid = <<>>
                \/ (lien.interest_rate_bid[1] >= 0
                      /\ lien.interest_rate_bid[1] <= 10000)
    /\ (/\ Called
        /\ \/ Args.face_amount = <<>>
           \/ Args.face_amount[1] < 0
           \/ (Args.assessed_value # <<>> /\ Args.assessed_value[1] < 0)
           \/ (Args.interest_rate_bid # <<>>
                 /\ (Args.interest_rate_bid[1] < 0
                       \/ Args.interest_rate_bid[1] > 10000)))
          => (Out = <<>> /\ batches = <<>>)

\* a rate just above 100 was rejected although every other argument is valid
C12_Witness ==
    /\ Called
    /\ Args.interest_rate_bid = <<10001>>
    /\ lien_call[1].errors =
          [state |-> {}, county |-> FALSE, parcel_id |-> FALSE,
           assessed_value |-> FALSE, face_amount |-> FALSE,
           interest_rate_bid |-> TRUE]
    /\ Out = <<>>

\* two strings that differ only in surrounding whitespace and letter case
SameText(a, b) == Lower(Strip(a)) = Lower(Strip(b))

\* C13: county and parcel_id are normalized on every construction: the
\* stored county is the trimmed input in title case, the stored parcel_id is
\* the trimmed input upper-cased, so that inputs differing only in
\* surrounding whitespace and letter case are stored as the same value.
C13_NormalizedOnConstruction ==
    (Called /\ Out # <<>>) =>
        /\ Out[1].county = Title(Strip(Args.county))
        /\ Out[1].parcel_id = Upper(Strip(Args.parcel_id))
        /\ \A cty \in CountyArgs, parcel \in ParcelArgs :
              LET other == TaxLien(Args.state, cty, parcel, <<>>,
                                   Args.assessed_value, Args.face_amount,
                                   Args.interest_rate_bid, <<>>, <<>>)
              IN  (other # <<>> /\ SameText(cty, Args.county)
                                /\ SameText(parcel, Args.parcel_id))
                    => /\ other[1].county = Out[1].county
                       /\ other[1].parcel_id = Out[1].parcel_id

\* C14: no constructed record stores an empty county or an empty parcel_id.
C14_NeverEmpty ==
    (Called /\ Out # <<>>) =>
        /\ Out[1].county # <<>>
        /\ Out[1].parcel_id # <<>>

(***************************************************************************)
(* Parsing decorated numeric cells: FileIngestorAdapter._parse_numeric     *)
(***************************************************************************)
\* plain numbers and the value each denotes, in hundredths
NumberTexts ==
    {[text |-> <<"0">>, value |-> 0],
     [text |-> <<"7">>, value |-> 700],
     [text |-> <<"1", "2", ".", "5">>, value |-> 1250],
     [text |-> <<"1", "2", "5", "0">>, value |-> 125000],
     [text |-> <<"1", ",", "2", "5", "0">>, value |-> 125000],
     [text |-> <<"1", ",", "2", "5", "0", ".", "0", "0">>, value |-> 125000]}

\* decoration before and after the number
CellPrefixes == {<<>>, <<"$">>, <<" ">>, <<" ", "$">>}

CellSuffixes == {<<>>, <<"%">>, <<" ">>, <<" ", "%">>}

\* a decorated cell and the number it denotes; enclosing parentheses are the
\* accounting notation of a negative amount
NumericCells ==
    {[text |-> (IF paren THEN <<"(">> ELSE <<>>) \o pre \o n.text \o suf
                    \o (IF paren THEN <<")">> ELSE <<>>),
      parenthesized |-> paren,
      denotes |-> IF paren THEN 0 - n.value ELSE n.value] :
        n \in NumberTexts, pre \in CellPrefixes, suf \in CellSuffixes,
        paren \in BOOLEAN}

InitParse ==
    /\ FileIdle
    /\ OthersIdle

\* lines 299-309: one _parse_numeric(cell) call
ParseCell ==
    /\ pc = "idle"
    /\ parse_call = <<>>
    /\ \E cell \in NumericCells :
          parse_call' = <<[cell |-> cell, out |-> ParseNumeric(cell.text)]>>
    /\ UNCHANGED <<fileVars, lien_call, resolve_call, adapters, session, fetch_call>>

NextParse == ParseCell

\* numeric parsing over every decorated cell
SpecParse == InitParse /\ [][NextParse]_vars

\* C15: a numeric cell decorated with a currency symbol, thousands
\* separators, a percent sign, whitespace or enclosing parentheses parses to
\* the number it denotes, negative when written in parentheses, and never to
\* an undefined value.
C15_DecoratedCellsParse ==
    parse_call # <<>> =>
        parse_call[1].out = <<parse_call[1].cell.denotes>>

\* the part of C15 that the parser provides: every cell without parentheses
\* parses to the number it denotes
C15_UnparenthesizedCellsParse ==
    (parse_call # <<>> /\ ~parse_call[1].cell.parenthesized) =>
        parse_call[1].out = <<parse_call[1].cell.denotes>>

\* every parenthesized cell parses to an undefined value
C15_ParenthesizedCellsUndefined ==
    (parse_call # <<>> /\ parse_call[1].cell.parenthesized) =>
        parse_call[1].out = <<>>

(***************************************************************************)
(* Adapters and the registry (src/src/adapters/*.py, src/src/config.py)    *)
(***************************************************************************)
\* SourcePlatform values (lien.py lines 13-18)
REALAUCTION == "RealAuction"

ZEUS == "Zeus"

MANUAL_UPLOAD == "Manual Upload"

UNKNOWN == "Unknown"

\* The adapter classes: the platform tag, the supported regions, and the
\* state a record built by fetch is given (<<>> when it is self.state).
LienHubAdapter ==
    [name |-> "LienHubAdapter", platform |-> REALAUCTION,
     supported_states |-> <<S("F", "L")>>, record_state |-> S("F", "L")]

ArizonaTaxSaleAdapter ==
    [name |-> "ArizonaTaxSaleAdapter", platform |-> REALAUCTION,
     supported_states |-> <<S("A", "Z")>>, record_state |-> S("A", "Z")]

CookCountyAdapter ==
    [name |-> "CookCountyAdapter", platform |-> REALAUCTION,
     supported_states |-> <<S("I", "L")>>, record_state |-> S("I", "L")]

NJTaxSaleAdapter ==
    [name |-> "NJTaxSaleAdapter", platform |-> REALAUCTION,
     supported_states |-> <<S("N", "J")>>, record_state |-> S("N", "J")]

ColoradoTaxSaleAdapter ==
    [name |-> "ColoradoTaxSaleAdapter", platform |-> REALAUCTION,
     supported_states |-> <<S("C", "O")>>, record_state |-> S("C", "O")]

SCTaxSaleAdapter ==
    [name |-> "SCTaxSaleAdapter", platform |-> MANUAL_UPLOAD,
     supported_states |-> <<S("S", "C")>>, record_state |-> S("S", "C")]

GovEaseAdapter ==
    [name |-> "GovEaseAdapter", platform |-> MANUAL_UPLOAD,
     supported_states |-> <<S("M", "S"), S("A", "L"), S("I", "A")>>,
     record_state |-> <<>>]

ZeusAdapter ==
    [name |-> "ZeusAdapter", platform |-> ZEUS,
     supported_states |-> <<S("I", "N"), S("I", "A"), S("C", "O")>>,
     record_state |-> <<>>]

RealAuctionAdapter ==
    [name |-> "RealAuctionAdapter", platform |-> REALAUCTION,
     supported_states |-> <<S("F", "L"), S("A", "Z"), S("C", "O"), S("N", "J")>>,
     record_state |-> <<>>]

FileIngestorAdapter ==
    [name |-> "FileIngestorAdapter", platform |-> MANUAL_UPLOAD,
     supported_states |->
        <<S("I", "L"), S("F", "L"), S("A", "Z"), S("N", "J"), S("I", "N"),
          S("C", "O"), S("I", "A"), S("M", "S"), S("A", "L"), S("S", "C")>>,
     record_state |-> <<>>]

AdapterClasses ==
    {LienHubAdapter, ArizonaTaxSaleAdapter, CookCountyAdapter, NJTaxSaleAdapter,
     ColoradoTaxSaleAdapter, SCTaxSaleAdapter, GovEaseAdapter, ZeusAdapter,
     RealAuctionAdapter, FileIngestorAdapter}

\* config.py lines 36-127, in dict order
STATE_REGISTRY ==
    <<[state_code |-> S("F", "L"), primary_adapter |-> LienHubAdapter,
       backup_adapters |-> <<FileIngestorAdapter>>],
      [state_code |-> S("A", "Z"), primary_adapter |-> ArizonaTaxSaleAdapter,
       backup_adapters |-> <<FileIngestorAdapter>>],
      [state_code |-> S("I", "L"), primary_adapter |-> CookCountyAdapter,
       backup_adapters |-> <<FileIngestorAdapter>>],
      [state_code |-> S("N", "J"), primary_adapter |-> NJTaxSaleAdapter,
       backup_adapters |-> <<FileIngestorAdapter>>],
      [state_code |-> S("I", "N"), primary_adapter |-> ZeusAdapter,
       backup_adapters |-> <<FileIngestorAdapter>>],
      [state_code |-> S("C", "O"), primary_adapter |-> ColoradoTaxSaleAdapter,
       backup_adapters |-> <<ZeusAdapter, FileIngestorAdapter>>],
      [state_code |-> S("I", "A"), primary_adapter |-> GovEaseAdapter,
       backup_adapters |-> <<ZeusAdapter, FileIngestorAdapter>>],
      [state_code |-> S("M", "S"), primary_adapter |-> GovEaseAdapter,
       backup_adapters |-> <<FileIngestorAdapter>>],
      [state_code |-> S("A", "L"), primary_adapter |-> GovEaseAdapter,
       backup_adapters |-> <<FileIngestorAdapter>>],
      [state_code |-> S("S", "C"), primary_adapter |-> SCTaxSaleAdapter,
       backup_adapters |-> <<FileIngestorAdapter>>]>>

\* list(STATE_REGISTRY.keys())
RegistryKeys == [i \in 1..Len(STATE_REGISTRY) |-> STATE_REGISTRY[i].state_code]

\* an error message that lists nothing
AvailableNone == <<>>

\* line 164: the list the error message enumerates
Available == RegistryKeys

\* line 161: state in STATE_REGISTRY
RegistryHas(st) == st \in Range(RegistryKeys)

\* line 167: STATE_REGISTRY[state]
Config(st) ==
    STATE_REGISTRY[CHOOSE i \in 1..Len(STATE_REGISTRY) :
                        STATE_REGISTRY[i].state_code = st]

\* a validation that accepts every region
ValidateAnyState(cls, st) == TRUE

\* base.py lines 35-41: _validate_state; FALSE when it raises
ValidateAdapterState(cls, st) ==
    cls.supported_states = <<>> \/ st \in Range(cls.supported_states)

\* base.py lines 23-33 and each adapter's __init__: cls(state, county); <<>>
\* when _validate_state raises, else the instance
NewAdapter(cls, st, cty) ==
    IF ValidateAdapterState(cls, Upper(st))
    THEN <<[cls |-> cls, state |-> Upper(st), county |-> cty, fetches |-> 0]>>
    ELSE <<>>

\* base.py lines 38-41: the ValueError of _validate_state
AdapterError(cls, st) ==
    [kind |-> "adapter", named |-> Upper(st), available |-> cls.supported_states]

\* a hint that is never the manual-upload platform
NeverManualUpload(platform) == FALSE

\* line 170: platform == SourcePlatform.MANUAL_UPLOAD
IsManualUpload(platform) == platform = <<MANUAL_UPLOAD>>

\* lines 174-179: the for/else over [primary] + backups, from position i
RECURSIVE FirstWithPlatform(_, _, _, _)
FirstWithPlatform(candidates, platform, i, default) ==
    IF i > Len(candidates) THEN default
    ELSE IF candidates[i].platform = platform THEN candidates[i]
    ELSE FirstWithPlatform(candidates, platform, i + 1, default)

\* a selection that ignores the registry
SelectRealAuction(config, platform) == RealAuctionAdapter

\* lines 169-181: which adapter class to use
SelectAdapter(config, platform) ==
    IF IsManualUpload(platform) THEN FileIngestorAdapter
    ELSE IF platform # <<>>
         THEN FirstWithPlatform(<<config.primary_adapter>> \o config.backup_adapters,
                                platform[1], 1, config.primary_adapter)
         ELSE config.primary_adapter

\* lines 138-183: get_adapter_for_state(state, county, platform); the class
\* selected (if the call got that far), the instance returned, the error
\* raised
get_adapter_for_state(st0, cty, platform) ==
    LET st == Upper(st0)
    IN  IF ~RegistryHas(st)
        THEN [selected |-> <<>>, out |-> <<>>,
              error |-> <<[kind |-> "registry", named |-> st,
                           available |-> Available]>>]
        ELSE LET adapter_class == SelectAdapter(Config(st), platform)
                 instance == NewAdapter(adapter_class, st, cty)
             IN  [selected |-> <<adapter_class>>, out |-> instance,
                  error |-> IF instance = <<>>
                            THEN <<AdapterError(adapter_class, st)>> ELSE <<>>]

\* the state a record built by the adapter's fetch is constructed with
RecordState(adapter) ==
    IF adapter.cls.record_state = <<>> THEN adapter.state
    ELSE adapter.cls.record_state

(***************************************************************************)
(* Resolving and constructing adapters                                     *)
(***************************************************************************)
\* the regions of the registry in upper and lower case, and others
RegionArgs ==
    Range(RegistryKeys) \cup {Lower(c) : c \in Range(RegistryKeys)}
        \cup {S("T", "X"), S("t", "x"), S("F", "l"), <<"F", "L", "A">>, <<>>}

PlatformHints ==
    {<<>>, <<REALAUCTION>>, <<ZEUS>>, <<MANUAL_UPLOAD>>, <<UNKNOWN>>}

CountyLabels == {<<>>, Duval}

InitConfig ==
    /\ FileIdle
    /\ OthersIdle

\* get_adapter_for_state(state, county, platform, **kwargs), the keyword
\* arguments being those the selected class requires (file_path)
Resolve ==
    /\ pc = "idle"
    /\ resolve_call = <<>>
    /\ \E st \in RegionArgs, cty \in CountyLabels, platform \in PlatformHints :
       \E r \in {get_adapter_for_state(st, cty, platform)} :
          /\ resolve_call' =
                <<[op |-> "get_adapter_for_state", cls |-> <<>>, state |-> st,
                   county |-> cty, platform |-> platform,
                   selected |-> r.selected, out |-> r.out, error |-> r.error]>>
          /\ adapters' = adapters \o r.out
    /\ UNCHANGED <<fileVars, lien_call, parse_call, session, fetch_call>>

\* cls(state, county), called directly
ConstructAdapter ==
    /\ pc = "idle"
    /\ resolve_call = <<>>
    /\ \E cls \in AdapterClasses, st \in RegionArgs, cty \in CountyLabels :
       \E instance \in {NewAdapter(cls, st, cty)} :
          /\ resolve_call' =
                <<[op |-> "construct", cls |-> <<cls>>, state |-> st,
                   county |-> cty, platform |-> <<>>,
                   selected |-> <<>>, out |-> instance,
                   error |-> IF instance = <<>>
                             THEN <<AdapterError(cls, st)>> ELSE <<>>]>>
          /\ adapters' = adapters \o instance
    /\ UNCHANGED <<fileVars, lien_call, parse_call, session, fetch_call>>

\* adapter.fetch() on an instance that exists
AdapterFetch ==
    /\ pc = "idle"
    /\ \E i \in 1..Len(adapters) :
          /\ adapters[i].fetches = 0
          /\ adapters' = [adapters EXCEPT ![i].fetches = 1]
    /\ UNCHANGED <<fileVars, lien_call, parse_call, resolve_call, session, fetch_call>>

NextConfig == Resolve \/ ConstructAdapter \/ AdapterFetch

\* adapter resolution and construction over regions, hints and classes
SpecConfig == InitConfig /\ [][NextConfig]_vars

Resolved == resolve_call # <<>> /\ resolve_call[1].op = "get_adapter_for_state"

Direct == resolve_call # <<>> /\ resolve_call[1].op = "construct"

\* the region of the call is in the registry, in any letter case
InRegistry(st) == \E i \in 1..Len(STATE_REGISTRY) :
    /\ Len(st) = 2
    /\ \A k \in 1..2 : st[k] \in {LowerChar(STATE_REGISTRY[i].state_code[k]),
                                  UpperChar(STATE_REGISTRY[i].state_code[k])}

\* the registry entry of the region of the call
EntryOf(st) ==
    CHOOSE e \in Range(STATE_REGISTRY) :
        \A k \in 1..2 : UpperChar(st[k]) = e.state_code[k]

\* the candidates of an entry in the order [preferred, fallbacks...]
CandidatesOf(e) == <<e.primary_adapter>> \o e.backup_adapters

\* C16: for a region of the registry the selected adapter is the file adapter
\* when the hint is the manual-upload platform; otherwise, with a hint, the
\* first candidate in the order [preferred, fallbacks...] whose platform tag
\* is the hint, or the preferred adapter if no candidate has it; and the
\* preferred adapter when no hint is given.
C16_SelectionRule ==
    (Resolved /\ InRegistry(resolve_call[1].state)) =>
        LET e == EntryOf(resolve_call[1].state)
            hint == resolve_call[1].platform
            cands == CandidatesOf(e)
            hits == {i \in 1..Len(cands) :
                        hint # <<>> /\ cands[i].platform = hint[1]}
            expected ==
                IF hint = <<MANUAL_UPLOAD>> THEN FileIngestorAdapter
                ELSE IF hits # {}
                     THEN cands[CHOOSE i \in hits : \A j \in hits : i <= j]
                     ELSE e.primary_adapter
        IN  /\ resolve_call[1].selected = <<expected>>
            /\ resolve_call[1].out # <<>> => resolve_call[1].out[1].cls = expected

\* the manual-upload hint chose the file adapter although the preferred
\* adapter of the region carries the same platform tag
C16_Witness ==
    /\ Resolved
    /\ resolve_call[1].state = S("i", "a")
    /\ resolve_call[1].platform = <<MANUAL_UPLOAD>>
    /\ resolve_call[1].selected = <<FileIngestorAdapter>>
    /\ EntryOf(resolve_call[1].state).primary_adapter.platform = MANUAL_UPLOAD

\* C17: resolving a region outside the registry raises an error that
\* enumerates the registry's regions, before any adapter class is selected or
\* constructed: no adapter instance and no browser session exists afterwards.
C17_UnsupportedRegionFailsFast ==
    (Resolved /\ ~InRegistry(resolve_call[1].state)) =>
        /\ resolve_call[1].error # <<>>
        /\ resolve_call[1].error[1].kind = "registry"
        /\ resolve_call[1].error[1].available =
              [i \in 1..Len(STATE_REGISTRY) |-> STATE_REGISTRY[i].state_code]
        /\ resolve_call[1].selected = <<>>
        /\ resolve_call[1].out = <<>>
        /\ adapters = <<>>
        /\ session = NoSession

\* a region outside the registry was refused
C17_Witness ==
    /\ Resolved
    /\ resolve_call[1].state = S("t", "x")
    /\ resolve_call[1].platform = <<MANUAL_UPLOAD>>
    /\ resolve_call[1].error # <<>>
    /\ adapters = <<>>

\* C18: for every region of the registry and every hint, including none, the
\* call returns an adapter: the selected class lists the region among its
\* supported regions, so its construction never fails, and the state its
\* fetch gives a record is the adapter's own region and passes the record
\* model's region validation.
C18_ResolvedAdapterIsValid ==
    (Resolved /\ InRegistry(resolve_call[1].state)) =>
        /\ resolve_call[1].error = <<>>
        /\ resolve_call[1].out # <<>>
        /\ LET adapter == resolve_call[1].out[1]
           IN  /\ <<adapter.cls>> = resolve_call[1].selected
               /\ adapter.state = Upper(resolve_call[1].state)
               /\ adapter.state \in Range(adapter.cls.supported_states)
               /\ RecordState(adapter) = adapter.state
               /\ ValidateState(RecordState(adapter)) = <<adapter.state>>

\* a hint no candidate carries fell back to the preferred adapter, which
\* supports the region
C18_Witness ==
    /\ Resolved
    /\ resolve_call[1].state = S("i", "n")
    /\ resolve_call[1].platform = <<REALAUCTION>>
    /\ resolve_call[1].out # <<>>
    /\ resolve_call[1].out[1].cls = ZeusAdapter

\* C19: constructing an adapter with a region outside its supported set, in
\* any letter case, raises and leaves no instance; every instance that
\* exists, and so every instance fetch is called on, has a region its class
\* supports.
C19_RejectedAtConstruction ==
    /\ \A i \in 1..Len(adapters) :
          adapters[i].state \in Range(adapters[i].cls.supported_states)
    /\ (Direct /\ Upper(resolve_call[1].state)
                    \notin Range(resolve_call[1].cls[1].supported_states)) =>
          /\ resolve_call[1].out = <<>>
          /\ resolve_call[1].error # <<>>
          /\ resolve_call[1].error[1].named = Upper(resolve_call[1].state)
          /\ adapters = <<>>

\* a lower-case region the class does not support was refused
C19_Witness ==
    /\ Direct
    /\ resolve_call[1].cls = <<ZeusAdapter>>
    /\ resolve_call[1].state = S("f", "l")
    /\ resolve_call[1].out = <<>>
    /\ adapters = <<>>

(***************************************************************************)
(* The browser session of a scraping fetch: LienHubAdapter.fetch with      *)
(* ScrapingSource.__aenter__ / __aexit__ (src/src/adapters/lienhub.py,     *)
(* src/src/adapters/base.py).  A resource is "none" (never acquired),      *)
(* "open", "closed", or "close_failed" (its close call raised).  Every     *)
(* awaited call may raise.                                                 *)
(***************************************************************************)
\* the records one parsed page yields
PageLiens == {0, 1, 2}

\* the max_records arguments of fetch
MaxRecordsArgs == {1, 3}

\* an exception leaves the coroutine: fetch raises
Raise(s, at) == [s EXCEPT !.pc = "done", !.outcome = "raised", !.failed_at = at]

\* an exception inside a try or with block: remembered while the cleanup runs
Pending(s, at, next) ==
    [s EXCEPT !.pc = next, !.pending = TRUE,
              !.failed_at = IF s.pending THEN s.failed_at ELSE at]

InitScrape ==
    /\ FileIdle
    /\ lien_call = <<>>
    /\ parse_call = <<>>
    /\ resolve_call = <<>>
    /\ fetch_call = <<>>
    /\ \E cty \in CountyLabels : adapters = NewAdapter(LienHubAdapter, FL, cty)
    /\ \E n \in MaxRecordsArgs :
          session = [NoSession EXCEPT !.pc = "start", !.max_records = n]

\* lienhub.py line 100 entering __aenter__, line 70: async_playwright().start()
StartDriver ==
    /\ session.pc = "start"
    /\ \/ session' = [session EXCEPT !.pc = "launch", !.playwright = "open"]
       \/ session' = Raise(session, "start")
    /\ UNCHANGED <<fileVars, lien_call, parse_call, resolve_call, adapters, fetch_call>>

\* lines 71-77: chromium.launch(...); an exception leaves __aenter__, so
\* __aexit__ is not called
LaunchBrowser ==
    /\ session.pc = "launch"
    /\ \/ session' = [session EXCEPT !.pc = "new_context", !.browser = "open"]
       \/ session' = Raise(session, "launch")
    /\ UNCHANGED <<fileVars, lien_call, parse_call, resolve_call, adapters, fetch_call>>

\* lines 78-81: browser.new_context(...)
NewContext ==
    /\ session.pc = "new_context"
    /\ \/ session' = [session EXCEPT !.pc = "init_script", !.context = "open"]
       \/ session' = Raise(session, "new_context")
    /\ UNCHANGED <<fileVars, lien_call, parse_call, resolve_call, adapters, fetch_call>>

\* lines 83-85: context.add_init_script(...), the last step of __aenter__
AddInitScript ==
    /\ session.pc = "init_script"
    /\ \/ session' = [session EXCEPT !.pc = "new_page"]
       \/ session' = Raise(session, "init_script")
    /\ UNCHANGED <<fileVars, lien_call, parse_call, resolve_call, adapters, fetch_call>>

\* lines 101-102: context.new_page(), inside the with block, before the try
NewPage ==
    /\ session.pc = "new_page"
    /\ \/ session' = [session EXCEPT !.pc = "goto", !.page = "open"]
       \/ session' = Pending(session, "new_page", "close_context")
    /\ UNCHANGED <<fileVars, lien_call, parse_call, resolve_call, adapters, fetch_call>>

\* lines 106-107: page.goto(...), wait_for_timeout
Navigate ==
    /\ session.pc = "goto"
    /\ \/ session' = [session EXCEPT !.pc = "parse"]
       \/ session' = Pending(session, "goto", "close_page")
    /\ UNCHANGED <<fileVars, lien_call, parse_call, resolve_call, adapters, fetch_call>>

\* lines 110-111: page.content() and _parse_table(html)
ParsePage ==
    /\ session.pc = "parse"
    /\ \/ \E k \in PageLiens :
             session' = [session EXCEPT !.pc = "paginate", !.pages = 1,
                                        !.liens = k]
       \/ session' = Pending(session, "parse", "close_page")
    /\ UNCHANGED <<fileVars, lien_call, parse_call, resolve_call, adapters, fetch_call>>

\* a loop that stays in on a page without records
NeverLeaves(k) == FALSE

\* lines 126-128: if not new_liens: break
EmptyPageLeaves(k) == k = 0

\* the turns of the pagination loop a behaviour may take; more than any
\* max_records argument, so the guard never stops the loop of lines 116-131
MaxTurns == 5

\* lines 116-131: the loop test and, when it holds, one turn of the
\* pagination loop: no Next button or a disabled one, a page without
\* records, or a page whose records are added
Paginate ==
    /\ session.pc = "paginate"
    /\ session.turns <= MaxTurns
    /\ IF session.liens >= session.max_records
       THEN session' = [session EXCEPT !.pc = "close_page"]
       ELSE \/ session' = [session EXCEPT !.pc = "close_page", !.turns = @ + 1]
            \/ \E k \in PageLiens :
                  session' =
                    IF EmptyPageLeaves(k)
                    THEN [session EXCEPT !.pc = "close_page", !.turns = @ + 1]
                    ELSE [session EXCEPT !.pages = @ + 1, !.liens = @ + k,
                                         !.turns = @ + 1]
            \/ session' = Pending([session EXCEPT !.turns = @ + 1],
                                  "paginate", "close_page")
    /\ UNCHANGED <<fileVars, lien_call, parse_call, resolve_call, adapters, fetch_call>>

\* lines 137-138: finally: page.close()
ClosePage ==
    /\ session.pc = "close_page"
    /\ \/ session' = [session EXCEPT !.pc = "close_context", !.page = "closed"]
       \/ session' = Pending([session EXCEPT !.page = "close_failed"],
                             "close_page", "close_context")
    /\ UNCHANGED <<fileVars, lien_call, parse_call, resolve_call, adapters, fetch_call>>

\* the with block ends: __aexit__ calls _close_browser; base.py lines
\* 121-122: context.close(); an exception leaves _close_browser
CloseContext ==
    /\ session.pc = "close_context"
    /\ \/ session' = [session EXCEPT !.pc = "close_browser", !.context = "closed"]
       \/ session' = Raise([session EXCEPT !.context = "close_failed"],
                           "close_context")
    /\ UNCHANGED <<fileVars, lien_call, parse_call, resolve_call, adapters, fetch_call>>

\* base.py lines 123-124: browser.close()
CloseBrowser ==
    /\ session.pc = "close_browser"
    /\ \/ session' = [session EXCEPT !.pc = "stop", !.browser = "closed"]
       \/ session' = Raise([session EXCEPT !.browser = "close_failed"],
                           "close_browser")
    /\ UNCHANGED <<fileVars, lien_call, parse_call, resolve_call, adapters, fetch_call>>

\* base.py lines 125-126: playwright.stop()
StopDriver ==
    /\ session.pc = "stop"
    /\ \/ session' = [session EXCEPT !.pc = "return", !.playwright = "closed"]
       \/ session' = Raise([session EXCEPT !.playwright = "close_failed"],
                           "stop")
    /\ UNCHANGED <<fileVars, lien_call, parse_call, resolve_call, adapters, fetch_call>>

\* __aexit__ returned: the pending exception propagates, or lines 140-146
\* return the batch
Finish ==
    /\ session.pc = "return"
    /\ session' =
          [session EXCEPT !.pc = "done",
                          !.outcome = IF session.pending THEN "raised"
                                      ELSE "returned",
                          !.liens = IF session.liens > session.max_records
                                    THEN session.max_records ELSE session.liens]
    /\ UNCHANGED <<fileVars, lien_call, parse_call, resolve_call, adapters, fetch_call>>

NextScrape ==
    \/ StartDriver \/ LaunchBrowser \/ NewContext \/ AddInitScript
    \/ NewPage \/ Navigate \/ ParsePage \/ Paginate \/ ClosePage
    \/ CloseContext \/ CloseBrowser \/ StopDriver \/ Finish

\* one scraping fetch with a failure possible at every awaited call
SpecScrape == InitScrape /\ [][NextScrape]_vars

\* a resource is released: never acquired, closed, or its own close raised
Released(r) == r \in {"none", "closed", "close_failed"}

\* C20: when fetch has returned or raised, whichever step failed, the
\* Playwright driver, the browser and the browser context that were acquired
\* have all been closed.
C20_ReleasedOnEveryExit ==
    session.outcome # "none" =>
        /\ Released(session.playwright)
        /\ Released(session.browser)
        /\ Released(session.context)

\* the part of C20 that holds: a fetch that returns, or that fails between
\* opening the page and closing it, has closed all three
C20_ReleasedAfterBodyFailure ==
    (session.outcome # "none"
        /\ session.failed_at \in {"none", "new_page", "goto", "parse",
                                  "paginate", "close_page"}) =>
        /\ session.playwright = "closed"
        /\ session.browser = "closed"
        /\ session.context = "closed"

(***************************************************************************)
(* GovEaseAdapter.fetch (src/src/adapters/govease.py): a scraping fetch    *)
(* whose except clause prints the error and goes on                        *)
(***************************************************************************)
\* the records the auction page parses to
GovLiens == {0, 1, 2, 4}

\* the max_records arguments of fetch
GovMaxRecords == {0, 1, 3}

\* lines 192-195: except Exception as e: print(...); the error is dropped
\* and fetch goes on to the finally clause
Swallow(s, at) == [s EXCEPT !.pc = "gov_close_page", !.failed_at = at]

\* the awaited steps that fail on a network or authentication failure
NetworkSteps == {"login", "goto"}

InitGov ==
    /\ FileIdle
    /\ lien_call = <<>>
    /\ parse_call = <<>>
    /\ resolve_call = <<>>
    /\ fetch_call = <<>>
    /\ \E st \in Range(GovEaseAdapter.supported_states), cty \in CountyLabels :
          adapters = NewAdapter(GovEaseAdapter, st, cty)
    /\ \E n \in GovMaxRecords, cred \in BOOLEAN :
          session = [NoSession EXCEPT !.pc = "gov_start", !.max_records = n,
                                      !.credentials = cred]

\* line 169 entering __aenter__, lines 113-131: _init_browser
GovEnter ==
    /\ session.pc = "gov_start"
    /\ \/ session' = [session EXCEPT !.pc = "gov_new_page",
                                     !.playwright = "open", !.browser = "open",
                                     !.context = "open"]
       \/ session' = Raise(session, "init_browser")
    /\ UNCHANGED <<fileVars, lien_call, parse_call, resolve_call, adapters, fetch_call>>

\* lines 170-171: context.new_page(), before the try
GovNewPage ==
    /\ session.pc = "gov_new_page"
    /\ \/ session' = [session EXCEPT !.page = "open",
                         !.pc = IF session.credentials THEN "gov_login"
                                ELSE "gov_goto"]
       \/ session' = Pending(session, "new_page", "gov_exit")
    /\ UNCHANGED <<fileVars, lien_call, parse_call, resolve_call, adapters, fetch_call>>

\* lines 175-176 and 133-150: _login, which catches its own errors and
\* returns False
GovLogin ==
    /\ session.pc = "gov_login"
    /\ \/ session' = [session EXCEPT !.pc = "gov_goto"]
       \/ session' = [session EXCEPT !.pc = "gov_goto", !.failed_at = "login"]
    /\ UNCHANGED <<fileVars, lien_call, parse_call, resolve_call, adapters, fetch_call>>

\* lines 178-180: page.goto(url), wait_for_timeout
GovNavigate ==
    /\ session.pc = "gov_goto"
    /\ \/ session' = [session EXCEPT !.pc = "gov_parse"]
       \/ session' = Swallow(session, "goto")
    /\ UNCHANGED <<fileVars, lien_call, parse_call, resolve_call, adapters, fetch_call>>

\* lines 183-190: page.content() and _parse_auction_list(html)
GovParse ==
    /\ session.pc = "gov_parse"
    /\ \/ \E k \in GovLiens :
             session' = [session EXCEPT !.pc = "gov_close_page", !.pages = 1,
                                        !.liens = k]
       \/ session' = Swallow(session, "parse")
    /\ UNCHANGED <<fileVars, lien_call, parse_call, resolve_call, adapters, fetch_call>>

\* lines 197-198: finally: page.close()
GovClosePage ==
    /\ session.pc = "gov_close_page"
    /\ \/ session' = [session EXCEPT !.pc = "gov_exit", !.page = "closed"]
       \/ session' = Pending([session EXCEPT !.page = "close_failed"],
                             "close_page", "gov_exit")
    /\ UNCHANGED <<fileVars, lien_call, parse_call, resolve_call, adapters, fetch_call>>

\* __aexit__: base.py lines 119-126, _close_browser
GovExit ==
    /\ session.pc = "gov_exit"
    /\ \/ session' = [session EXCEPT !.pc = "gov_return", !.context = "closed",
                                     !.browser = "closed", !.playwright = "closed"]
       \/ session' = Raise(session, "close_browser")
    /\ UNCHANGED <<fileVars, lien_call, parse_call, resolve_call, adapters, fetch_call>>

\* the pending exception propagates, or lines 200-206 return
\* LienBatch(liens=liens[:max_records], ...)
GovReturn ==
    /\ session.pc = "gov_return"
    /\ session' =
          [session EXCEPT !.pc = "done",
                          !.outcome = IF session.pending THEN "raised"
                                      ELSE "returned",
                          !.liens = IF session.liens > session.max_records
                                    THEN session.max_records ELSE session.liens]
    /\ UNCHANGED <<fileVars, lien_call, parse_call, resolve_call, adapters, fetch_call>>

NextGov ==
    \/ GovEnter \/ GovNewPage \/ GovLogin \/ GovNavigate \/ GovParse
    \/ GovClosePage \/ GovExit \/ GovReturn

\* one GovEase fetch with a failure possible at every awaited call
SpecGov == InitGov /\ [][NextGov]_vars

\* C21: a fetch whose source yields no records returns an empty batch and
\* does not raise; a fetch during which a network or authentication failure
\* occurred never returns a batch: the failure reaches the caller as an
\* error.
C21_FailuresPropagate ==
    /\ (session.pc = "done" /\ session.failed_at = "none" /\ session.pages = 1)
          => session.outcome = "returned"
    /\ (session.pc = "done" /\ session.failed_at \in NetworkSteps)
          => session.outcome = "raised"

\* the part of C21 that holds: zero results are an empty batch, not an error
C21_ZeroResultsReturnEmptyBatch ==
    (session.pc = "done" /\ session.failed_at = "none" /\ session.pages = 1)
        => session.outcome = "returned"

(***************************************************************************)
(* fetch(max_records=n) on the adapters the registry hands out             *)
(***************************************************************************)
\* the max_records arguments of a bounded fetch
LimitArgs == {0, 1, 3}

\* the records a fetch has collected when it builds its batch
CollectedCounts == {0, 1, 2, 4}

\* the classes whose fetch declares max_records and returns
\* liens[:max_records]; zeus.py line 91 and realauction.py line 113 declare
\* max_pages, file_ingestor.py line 132 declares only **kwargs, and the three
\* return liens=liens
SlicingClasses ==
    {LienHubAdapter, ArizonaTaxSaleAdapter, CookCountyAdapter, NJTaxSaleAdapter,
     ColoradoTaxSaleAdapter, SCTaxSaleAdapter, GovEaseAdapter}

\* len(liens[:n]) for a non-negative n
SliceLen(collected, n) == IF collected > n THEN n ELSE collected

\* the number of records in the batch that cls.fetch(max_records=n) returns
\* when it has collected `collected` records
ReturnedCount(cls, collected, n) ==
    IF cls \in SlicingClasses THEN SliceLen(collected, n) ELSE collected

\* adapter.fetch(max_records=n) on an adapter the registry handed out
LimitedFetch ==
    /\ pc = "idle"
    /\ Resolved
    /\ \E i \in 1..Len(adapters), n \in LimitArgs, collected \in CollectedCounts :
          /\ adapters[i].fetches = 0
          /\ adapters' = [adapters EXCEPT ![i].fetches = 1]
          /\ fetch_call' = Append(fetch_call,
                [adapter |-> i, max_records |-> n, collected |-> collected,
                 returned |-> ReturnedCount(adapters[i].cls, collected, n)])
    /\ UNCHANGED <<fileVars, lien_call, parse_call, resolve_call, session>>

NextLimit == Resolve \/ LimitedFetch

\* an adapter obtained from the registry, then one bounded fetch on it
SpecLimit == InitConfig /\ [][NextLimit]_vars

\* C22: for every adapter obtainable from the registry and every n, the
\* batch returned by fetch(max_records=n) holds at most n records.
C22_AtMostMaxRecords ==
    \A k \in 1..Len(fetch_call) : fetch_call[k].returned <= fetch_call[k].max_records

\* the part of C22 that holds: the adapters that slice their result
C22_SlicingAdaptersBounded ==
    \A k \in 1..Len(fetch_call) :
        adapters[fetch_call[k].adapter].cls \in SlicingClasses
            => fetch_call[k].returned <= fetch_call[k].max_records

(***************************************************************************)
(* _detect_column_mappings run several times, on one instance or on two    *)
(***************************************************************************)
\* how many detection runs a behaviour makes
MaxRuns == 3

\* the adapter instances that run the detection
Instances == {1, 2}

Reversed(s) == [i \in 1..Len(s) |-> s[Len(s) + 1 - i]]

\* the header lists of the runs: the table's, and the same headers in another
\* order (another file on the same or another instance)
RunLists(cols) == {cols, Reversed(cols)}

\* a detection that still holds as claimed the headers of the runs before it
CarriedUsed(prev) == UNION {DictKeys(prev[k].mappings) : k \in 1..Len(prev)}

\* line 199: mappings = {}, a local of the call, whatever ran before
LocalMappings(prev) == <<>>

\* line 200: used_columns = set(), a local of the call, whatever ran before
LocalUsed(prev) == {}

\* lines 189-233: the dict returned by a run that comes after the runs prev
DetectAfter(prev, cols, sc) ==
    DetectFrom(cols, sc, 1, LocalMappings(prev), LocalUsed(prev), <<>>).mappings

\* one fuzzy (header, target) pair at most
RemapScores(cols) == ScoreFns(cols, 1)

InitRemap ==
    /\ Constructed
    /\ OthersIdle
    /\ county = <<>>
    /\ columns \in HeaderLists
    /\ rows = <<>>
    /\ column_overrides = <<>>
    /\ score \in RemapScores(columns)

\* instance i runs self._detect_column_mappings(cols)
DetectRun ==
    /\ pc = "constructed"
    /\ Len(fetch_call) < MaxRuns
    /\ \E i \in Instances, cols \in RunLists(columns) :
          fetch_call' = Append(fetch_call,
              [instance |-> i, columns |-> cols,
               mappings |-> DetectAfter(fetch_call, cols, score)])
    /\ UNCHANGED <<fileVars, lien_call, parse_call, resolve_call, adapters, session>>

NextRemap == DetectRun

\* up to MaxRuns detection runs with one scorer and one synonym table
SpecRemap == InitRemap /\ [][NextRemap]_vars

OrderOf(t) == CHOOSE i \in 1..Len(TargetOrder) : TargetOrder[i] = t

\* header h reaches the threshold for both targets, t1 declared before t2
ReachesBoth(h, t1, t2) ==
    /\ OrderOf(t1) < OrderOf(t2)
    /\ HeaderScore(h, t1) >= FUZZY_THRESHOLD
    /\ HeaderScore(h, t2) >= FUZZY_THRESHOLD

\* the scans run in declaration order
ScansInDeclaredOrder ==
    /\ Len(scan_log) = Len(TargetOrder)
    /\ \A i \in 1..Len(scan_log) : scan_log[i].target = TargetOrder[i]

\* C24 as stated: the targets are evaluated in declaration order, and a
\* header that reaches the threshold for two targets is always awarded to
\* the one evaluated first, never to the later one.
C24_AlwaysToEarlierTarget ==
    pc = "fetched" =>
        /\ ScansInDeclaredOrder
        /\ \A h \in Range(columns), t1, t2 \in Targets :
              ReachesBoth(h, t1, t2) => <<h, t2>> \notin AutoPairs

\* C24 amended: the targets are evaluated in declaration order, and a header
\* that reaches the threshold for two targets is awarded to the later one
\* only when the earlier one was awarded to another header that scored at
\* least as high for it.
C24_LaterTargetOnlyWhenOutscored ==
    pc = "fetched" =>
        /\ ScansInDeclaredOrder
        /\ \A h \in Range(columns), t1, t2 \in Targets :
              (ReachesBoth(h, t1, t2) /\ <<h, t2>> \in AutoPairs) =>
                  \E g \in Range(columns) \ {h} :
                      /\ <<g, t1>> \in AutoPairs
                      /\ HeaderScore(g, t1) >= HeaderScore(h, t1)

\* C24 witness: a header reached the threshold for two targets and went to
\* the later one, and another such header went to the earlier one
C24_Witness ==
    /\ pc = "fetched"
    /\ \E h \in Range(columns), t1, t2 \in Targets :
          ReachesBoth(h, t1, t2) /\ <<h, t2>> \in AutoPairs
    /\ \E h \in Range(columns), t1, t2 \in Targets :
          ReachesBoth(h, t1, t2) /\ <<h, t1>> \in AutoPairs

\* the position of a header in df.columns
ColumnIndex(h) == CHOOSE j \in 1..Len(columns) : columns[j] = h

\* lines 239-242: get_unmapped_columns(columns) on an adapter whose
\* _detected_mappings is detected
get_unmapped_columns(cols, detected) ==
    SelectSeq(cols, LAMBDA c : c \notin DictKeys(detected))

\* headers a and b were both unclaimed when scan i ran and both reach the
\* threshold for its target
BothQualify(i, a, b) ==
    /\ a # b
    /\ {a, b} \cap ClaimedBefore(i) = {}
    /\ HeaderScore(a, scan_log[i].target) >= FUZZY_THRESHOLD
    /\ HeaderScore(b, scan_log[i].target) >= FUZZY_THRESHOLD

\* lines 207-227: the scan of target t keeps header a rather than header b
Prefers(t, a, b) ==
    IF IsExact(a, t) /\ IsExact(b, t) THEN ColumnIndex(a) < ColumnIndex(b)
    ELSE IF IsExact(a, t) THEN TRUE
    ELSE IF IsExact(b, t) THEN FALSE
    ELSE \/ score[a][t] > score[b][t]
         \/ score[a][t] = score[b][t] /\ ColumnIndex(a) < ColumnIndex(b)

\* the headers get_unmapped_columns returns for the observed columns
UnmappedHeaders == Range(get_unmapped_columns(columns, detected_mappings))

\* the mapped and the unmapped headers partition the observed headers
MappedUnmappedPartition ==
    /\ DictKeys(detected_mappings) \cup UnmappedHeaders = Range(columns)
    /\ DictKeys(detected_mappings) \cap UnmappedHeaders = {}

\* C25 as stated: when two observed headers both qualify for the same target
\* field, the first of them in header scan order is mapped to it and the
\* other one remains unmapped and is returned by get_unmapped_columns; the
\* mapped and the unmapped headers partition the observed headers.
C25_FirstInScanOrderWins ==
    pc = "fetched" =>
        /\ MappedUnmappedPartition
        /\ \A i \in 1..Len(scan_log), a, b \in Range(columns) :
              (BothQualify(i, a, b) /\ ColumnIndex(a) < ColumnIndex(b)) =>
                  /\ <<a, scan_log[i].target>> \in AutoPairs
                  /\ b \in UnmappedHeaders

\* C25 amended: when two observed headers both qualify for the same target
\* field and neither is claimed when it is scanned, only the preferred one is
\* mapped to it (an exact synonym before a fuzzy match, the higher score among
\* fuzzy matches, the first in header order among equals); the other one is
\* returned by get_unmapped_columns unless a later target field claims it;
\* the mapped and the unmapped headers partition the observed headers.
C25_PreferredHeaderWins ==
    pc = "fetched" =>
        /\ MappedUnmappedPartition
        /\ \A i \in 1..Len(scan_log), a, b \in Range(columns) :
              (BothQualify(i, a, b) /\ Prefers(scan_log[i].target, a, b)) =>
                  /\ <<b, scan_log[i].target>> \notin AutoPairs
                  /\ \E g \in Range(columns) \ {b} :
                        /\ <<g, scan_log[i].target>> \in AutoPairs
                        /\ g = a \/ Prefers(scan_log[i].target, g, a)
                  /\ \/ b \in UnmappedHeaders
                     \/ \E k \in (i + 1)..Len(scan_log) :
                           <<b, scan_log[k].target>> \in AutoPairs

\* C25 witness: two unclaimed headers qualified for one target; the later
\* one in header order scored higher and was mapped, and the earlier one is
\* among the unmapped headers
C25_Witness ==
    /\ pc = "fetched"
    /\ \E i \in 1..Len(scan_log), a, b \in Range(columns) :
          /\ BothQualify(i, a, b)
          /\ ColumnIndex(a) < ColumnIndex(b)
          /\ <<b, scan_log[i].target>> \in AutoPairs
          /\ a \in UnmappedHeaders
          /\ Len(columns) = 3

(***************************************************************************)
(* Overrides at row level: fetch on a table whose headers are all mapped   *)
(***************************************************************************)
\* the header lists of the runs: a parcel column, a date column and an amount
\* column
OverrideLists == {<<H_PIN, H_Date, H_AmtDue>>, <<H_PIN, H_AmtDue, H_Date>>}

\* column_overrides that re-map the date or the amount column
RowOverrideDicts ==
    SeqsUpTo({H_Date, H_AmtDue} \X {"face_amount", "auction_date"}, 1)

InitOverride ==
    /\ Constructed
    /\ OthersIdle
    /\ county = <<>>
    /\ columns \in OverrideLists
    /\ rows \in Tables(columns)
    /\ column_overrides \in RowOverrideDicts
    /\ score \in FetchScores

\* fetch on a file whose columns are re-mapped by an override
SpecOverride == InitOverride /\ [][NextFetch]_vars

\* lines 266-272: what a record holds for target t when the cell is its value
RowValue(t, cell) ==
    CASE t = "face_amount"  -> <<FaceOrZero(ParseNumeric(cell))>>
      [] t = "auction_date" -> ParseDate(cell)

\* the applied overrides whose target the automatic pass gave to another
\* header
ContestedOverrides ==
    {o \in AppliedOverrides :
        \E g \in Range(columns) \ {o[1]} : <<g, o[2]>> \in AutoPairs}

\* the position of a header in the mapping after the overrides
MappingIndex(h) ==
    CHOOSE i \in 1..Len(detected_mappings) : detected_mappings[i][1] = h

\* C26: when an override maps header H to target T while the automatic pass
\* mapped another header H' to T, every record of the batch takes its T
\* value from column H, never from H', whatever the order in which the two
\* headers entered the mapping.
C26_OverrideWinsAtRowLevel ==
    pc = "fetched" =>
        \A o \in ContestedOverrides :
            \A k \in 1..Len(Fetched.liens) :
                Attr(Fetched.liens[k], o[2])
                    = RowValue(o[2], Fetched.liens[k].raw_data[o[1]])

\* the part of C26 that holds: the override wins at row level when its header
\* stands after the automatically mapped one in the mapping
C26_OverrideWinsWhenEnteredLater ==
    pc = "fetched" =>
        \A o \in ContestedOverrides :
            (\A g \in Range(columns) \ {o[1]} :
                <<g, o[2]>> \in AutoPairs => MappingIndex(g) < MappingIndex(o[1]))
            => \A k \in 1..Len(Fetched.liens) :
                  Attr(Fetched.liens[k], o[2])
                      = RowValue(o[2], Fetched.liens[k].raw_data[o[1]])

(***************************************************************************)
(* Two fetch calls on two independently constructed adapter instances,     *)
(* interleaved statement by statement                                      *)
(***************************************************************************)
\* the instance a fetch call works on: call c is adapters[c].fetch()
InstanceOf(c) == c

\* an attribute kept in one process-wide place, whichever instance writes it
ProcessWide(i) == 1

\* self._detected_mappings, self._playwright, self._browser, self._context:
\* attributes of the instance itself (file_ingestor.py line 130, base.py lines
\* 104-105 and 112-113)
Self(i) == i

\* the scorer of the concurrent runs
ConcScore == [ZeroScore EXCEPT ![H_AmtDue]["face_amount"] = FUZZY_THRESHOLD]

\* the files of the concurrent runs: one row, with or without a PIN column
ConcLists == {<<H_PIN, H_AmtDue>>, <<H_Date, H_AmtDue>>}

ConcTables(cols) ==
    {<<RowOf(MakeRow(Cell_7, a), cols)>> : a \in {Cell_1250, Cell_Neg5}}

ConcOverrides == {<<>>, <<<<H_Date, "parcel_id">>>>}

\* what a scraped site holds
SiteLiens == {<<>>, <<CHOOSE l \in LienPool : l.face_amount = 1 /\ l.assessed_value = <<>> >>}

\* file_ingestor.py lines 109-130: a constructed file adapter
FileInstance(cols, rws, ovr) ==
    [kind |-> "file", columns |-> cols, rows |-> rws, column_overrides |-> ovr,
     site |-> <<>>, detected_mappings |-> <<>>,
     playwright |-> <<>>, browser |-> <<>>, context |-> <<>>]

\* base.py lines 86-106: a constructed scraping adapter
ScrapingInstance(site) ==
    [kind |-> "scrape", columns |-> <<>>, rows |-> <<>>, column_overrides |-> <<>>,
     site |-> site, detected_mappings |-> <<>>,
     playwright |-> <<>>, browser |-> <<>>, context |-> <<>>]

ConcInstances ==
    {FileInstance(cols, rws, ovr) :
        cols \in ConcLists, rws \in UNION {ConcTables(c) : c \in ConcLists},
        ovr \in ConcOverrides}
    \cup {ScrapingInstance(site) : site \in SiteLiens}

\* a file instance holds the rows of its own columns
WellFormed(inst) ==
    inst.kind = "file" => \A k \in 1..Len(inst.rows) : DOMAIN inst.rows[k] = Range(inst.columns)

\* a fetch call that has not run its first statement
NewCall(inst) ==
    [pc |-> IF inst.kind = "file" THEN "load" ELSE "start",
     liens |-> <<>>, result |-> <<>>, overlap |-> FALSE]

InitConc ==
    /\ FileIdle
    /\ lien_call = <<>>
    /\ parse_call = <<>>
    /\ resolve_call = <<>>
    /\ session = NoSession
    /\ \E a, b \in {i \in ConcInstances : WellFormed(i)} :
          /\ adapters = <<a, b>>
          /\ fetch_call = <<NewCall(a), NewCall(b)>>

\* call c has run a statement and has not returned
InFlight(c) ==
    fetch_call[c].pc \notin {"load", "start", "done"}

\* the other call of the two
Other(c) == 3 - c

\* call c moves to pc p; it has overlapped if the other call is in flight
Step(c, p) ==
    [fetch_call EXCEPT ![c].pc = p, ![c].overlap = @ \/ InFlight(Other(c))]

\* line 140: df = self._load_dataframe()
ConcLoad(c) ==
    /\ fetch_call[c].pc = "load"
    /\ fetch_call' = Step(c, "detect")
    /\ UNCHANGED <<fileVars, lien_call, parse_call, resolve_call, adapters, session>>

\* line 143: self._detected_mappings = self._detect_column_mappings(...)
ConcDetect(c) ==
    /\ fetch_call[c].pc = "detect"
    /\ adapters' = [adapters EXCEPT ![Self(InstanceOf(c))].detected_mappings =
          DetectColumnMappings(adapters[InstanceOf(c)].columns, ConcScore).mappings]
    /\ fetch_call' = Step(c, "override")
    /\ UNCHANGED <<fileVars, lien_call, parse_call, resolve_call, session>>

\* lines 145-148: self._detected_mappings[source_col] = target_field
ConcOverride(c) ==
    /\ fetch_call[c].pc = "override"
    /\ adapters' = [adapters EXCEPT ![Self(InstanceOf(c))].detected_mappings =
          ApplyOverrides(adapters[Self(InstanceOf(c))].detected_mappings,
                         adapters[InstanceOf(c)].column_overrides,
                         adapters[InstanceOf(c)].columns)]
    /\ fetch_call' = Step(c, "transform")
    /\ UNCHANGED <<fileVars, lien_call, parse_call, resolve_call, session>>

\* line 151: liens = self._transform_dataframe(df)
ConcTransform(c) ==
    /\ fetch_call[c].pc = "transform"
    /\ fetch_call' =
          [Step(c, "return") EXCEPT ![c].liens =
              TransformDataframe(adapters[InstanceOf(c)].rows,
                                 adapters[Self(InstanceOf(c))].detected_mappings,
                                 adapters[InstanceOf(c)].columns, Upper(FL), <<>>)]
    /\ UNCHANGED <<fileVars, lien_call, parse_call, resolve_call, adapters, session>>

\* base.py line 112: self._playwright = await async_playwright().start()
ConcStart(c) ==
    /\ fetch_call[c].pc = "start"
    /\ adapters' = [adapters EXCEPT ![Self(InstanceOf(c))].playwright = <<c>>]
    /\ fetch_call' = Step(c, "launch")
    /\ UNCHANGED <<fileVars, lien_call, parse_call, resolve_call, session>>

\* base.py line 113: self._browser = await self._playwright.chromium.launch()
ConcLaunch(c) ==
    /\ fetch_call[c].pc = "launch"
    /\ adapters' = [adapters EXCEPT ![Self(InstanceOf(c))].browser =
                        adapters[Self(InstanceOf(c))].playwright]
    /\ fetch_call' = Step(c, "context")
    /\ UNCHANGED <<fileVars, lien_call, parse_call, resolve_call, session>>

\* base.py lines 114-117: self._context = await self._browser.new_context()
ConcContext(c) ==
    /\ fetch_call[c].pc = "context"
    /\ adapters' = [adapters EXCEPT ![Self(InstanceOf(c))].context =
                        adapters[Self(InstanceOf(c))].browser]
    /\ fetch_call' = Step(c, "collect")
    /\ UNCHANGED <<fileVars, lien_call, parse_call, resolve_call, session>>

\* the body of the with block: the page of self._context is parsed; a page
\* opened in the context of another instance's browser shows nothing of this
\* instance's site
ConcCollect(c) ==
    /\ fetch_call[c].pc = "collect"
    /\ fetch_call' =
          [Step(c, "return") EXCEPT ![c].liens =
              IF adapters[Self(InstanceOf(c))].context = <<c>>
              THEN adapters[InstanceOf(c)].site ELSE <<>>]
    /\ UNCHANGED <<fileVars, lien_call, parse_call, resolve_call, adapters, session>>

\* file_ingestor.py lines 153-159, lienhub.py lines 140-146: return
\* LienBatch(liens=liens, ...)
ConcReturn(c) ==
    /\ fetch_call[c].pc = "return"
    /\ fetch_call' =
          [Step(c, "done") EXCEPT ![c].result =
              <<LienBatch(fetch_call[c].liens, FilePath, Today, Upper(FL), <<>>)>>]
    /\ UNCHANGED <<fileVars, lien_call, parse_call, resolve_call, adapters, session>>

NextConc ==
    \E c \in {1, 2} :
        \/ ConcLoad(c) \/ ConcDetect(c) \/ ConcOverride(c) \/ ConcTransform(c)
        \/ ConcStart(c) \/ ConcLaunch(c) \/ ConcContext(c) \/ ConcCollect(c)
        \/ ConcReturn(c)

\* two fetch calls, any interleaving of their statements
SpecConc == InitConc /\ [][NextConc]_vars

\* the batch the fetch of an instance returns when nothing else runs
AloneBatch(inst) ==
    LienBatch(IF inst.kind = "file"
              THEN TransformDataframe(
                       inst.rows,
                       ApplyOverrides(
                           DetectColumnMappings(inst.columns, ConcScore).mappings,
                           inst.column_overrides, inst.columns),
                       inst.columns, Upper(FL), <<>>)
              ELSE inst.site,
              FilePath, Today, Upper(FL), <<>>)

\* every returned batch is the one the call returns when run alone
ReturnsAsAlone ==
    \A c \in {1, 2} :
        fetch_call[c].pc = "done" =>
            fetch_call[c].result = <<AloneBatch(adapters[InstanceOf(c)])>>

\* a step changes the attributes of an instance only if it is a step of the
\* fetch on that instance
WritesOwnInstanceOnly ==
    \A j \in {1, 2} :
        adapters'[j] # adapters[j] => fetch_call'[j] # fetch_call[j]

\* C27: for any interleaving of fetch calls on independently constructed
\* instances, each call returns the batch it returns when run alone, and the
\* detected mappings and session handles of an instance are written only by
\* the fetch on that instance.
C27_NoSharedMutableState ==
    []ReturnsAsAlone /\ [][WritesOwnInstanceOnly]_vars

\* C27 witness: two file fetches with different mappings overlapped and both
\* returned a batch with a record
C27_Witness ==
    /\ \A c \in {1, 2} :
          /\ fetch_call[c].pc = "done"
          /\ fetch_call[c].overlap
          /\ fetch_call[c].result[1].liens # <<>>
    /\ adapters[1].detected_mappings # <<>>
    /\ adapters[2].detected_mappings # <<>>
    /\ adapters[1].detected_mappings # adapters[2].detected_mappings

\* two scraping fetches overlapped, each holds its own handles, and both
\* returned
C27_WitnessHandles ==
    /\ adapters[1].kind = "scrape" /\ adapters[1].context = <<1>>
    /\ adapters[2].kind = "scrape" /\ adapters[2].context = <<2>>
    /\ \A c \in {1, 2} : fetch_call[c].pc = "done" /\ fetch_call[c].overlap
    /\ fetch_call[1].result[1].liens # <<>>

(***************************************************************************)
(* ColumnMappingHelper.suggest_mappings                                    *)
(***************************************************************************)
\* line 394: the lower threshold of the suggestions
SUGGEST_THRESHOLD == 50

\* lines 376-391: the targets from index i on, for one column; best_target
\* is <<>> for None
RECURSIVE ScanTargets(_, _, _, _, _, _)
ScanTargets(col, sc, used_targets, i, best_target, best_score) ==
    IF i > Len(TargetOrder)
    THEN [best_target |-> best_target, best_score |-> best_score]
    ELSE LET target_field == TargetOrder[i]
         IN  IF target_field \in used_targets
             THEN ScanTargets(col, sc, used_targets, i + 1, best_target, best_score)
             ELSE IF IsExact(col, target_field)
             THEN [best_target |-> <<target_field>>, best_score |-> ExactScore]
             ELSE LET result == ExtractOneScore(sc, col, target_field)
                  IN  IF result > best_score
                      THEN ScanTargets(col, sc, used_targets, i + 1,
                                       <<target_field>>, result)
                      ELSE ScanTargets(col, sc, used_targets, i + 1,
                                       best_target, best_score)

\* lines 370-399: the columns from index j on, in header order
RECURSIVE SuggestFrom(_, _, _, _, _)
SuggestFrom(cols, sc, j, suggestions, used_targets) ==
    IF j > Len(cols) THEN suggestions
    ELSE LET best == ScanTargets(cols[j], sc, used_targets, 1, <<>>, 0)
         IN  IF best.best_target # <<>> /\ best.best_score >= SUGGEST_THRESHOLD
             THEN SuggestFrom(cols, sc, j + 1,
                      DictSet(suggestions, cols[j],
                              [target |-> best.best_target[1],
                               confidence |-> best.best_score,
                               auto_mapped |-> best.best_score >= FUZZY_THRESHOLD]),
                      IF best.best_score >= FUZZY_THRESHOLD
                      THEN used_targets \cup {best.best_target[1]}
                      ELSE used_targets)
             ELSE SuggestFrom(cols, sc, j + 1, suggestions, used_targets)

\* lines 359-401
suggest_mappings(cols, sc) == SuggestFrom(cols, sc, 1, <<>>, {})

\* ColumnMappingHelper.suggest_mappings(columns) on the headers of the file
Suggest ==
    /\ fetch_call = <<>>
    /\ fetch_call' = <<[op |-> "suggest_mappings", columns |-> columns,
                        out |-> suggest_mappings(columns, score)]>>
    /\ UNCHANGED <<fileVars, lien_call, parse_call, resolve_call, adapters, session>>

NextSuggest == Fetch \/ Suggest

\* the UI helper and the adapter run on the same header list
SpecSuggest == InitRemap /\ [][NextSuggest]_vars

\* the (header, target) pairs suggest_mappings flags auto_mapped
SuggestedAuto ==
    {<<s[1], s[2].target>> : s \in {x \in Range(fetch_call[1].out) : x[2].auto_mapped}}

\* C28: for every header list, the (header, target) pairs that
\* suggest_mappings flags auto_mapped are exactly the pairs of the mapping
\* that _detect_column_mappings computes for the same header list.
C28_SuggestionsAreDetectedMappings ==
    (pc = "fetched" /\ fetch_call # <<>>) => SuggestedAuto = AutoPairs

(***************************************************************************)
(* Termination of the pagination loop of LienHubAdapter.fetch              *)
(***************************************************************************)
\* every awaited page operation returns, so a fetch that can step does
SpecScrapeLive == SpecScrape /\ WF_vars(NextScrape)

\* the loop body has run at most max_records times
TurnsBounded == session.turns <= session.max_records

\* a turn that stays in the loop has added a record
LoopProgress ==
    (session.pc = "paginate" /\ session'.pc = "paginate")
        => session'.liens > session.liens

\* C29: the pagination loop terminates for every max_records and every
\* behaviour of the site: each turn leaves the loop or strictly increases the
\* number of collected records, it runs at most max_records turns, and the
\* fetch ends when each page operation returns.
C29_PaginationTerminates ==
    /\ []TurnsBounded
    /\ [][LoopProgress]_vars
    /\ <>(session.pc = "done")

\* C29 witness: the loop ran max_records turns, one record a page, after a
\* first page without records, and the fetch returned
C29_Witness ==
    /\ session.pc = "done"
    /\ session.outcome = "returned"
    /\ session.max_records = 3
    /\ session.turns = session.max_records
    /\ session.liens = 3

(***************************************************************************)
(* Introspection: get_detected_mappings and get_unmapped_columns           *)
(***************************************************************************)
\* a getter that hands out the adapter's own dict
ReturnsAlias(d) == [alias |-> TRUE, got |-> d, value |-> d]

\* line 237: return self._detected_mappings.copy(); the object the caller
\* gets: not the adapter's dict, its content at the time of the call, and its
\* content now
get_detected_mappings(d) == [alias |-> FALSE, got |-> d, value |-> d]

\* what a caller does to the dict it got: returned[h] = t, or
\* returned.clear()
CallerEdits(d) ==
    {DictSet(d, h, t) : h \in HeaderPool, t \in {"county", "parcel_id"}}
        \cup {<<>>}

InitIntrospect ==
    /\ Constructed
    /\ OthersIdle
    /\ county = <<>>
    /\ columns \in FetchLists
    /\ rows \in ConcTables(columns)
    /\ column_overrides \in OverrideDicts
    /\ score \in FetchScores

\* adapter.get_detected_mappings() after a fetch
GetDetectedMappings ==
    /\ pc = "fetched"
    /\ fetch_call = <<>>
    /\ fetch_call' = <<get_detected_mappings(detected_mappings)>>
    /\ UNCHANGED <<fileVars, lien_call, parse_call, resolve_call, adapters, session>>

\* the caller changes the dict it got; the adapter's dict changes with it
\* only if it is the same object
EditReturned ==
    /\ fetch_call # <<>>
    /\ fetch_call[1].value = fetch_call[1].got
    /\ \E d \in CallerEdits(fetch_call[1].value) \ {fetch_call[1].value} :
          /\ fetch_call' = [fetch_call EXCEPT ![1].value = d]
          /\ detected_mappings' = IF fetch_call[1].alias THEN d
                                  ELSE detected_mappings
    /\ UNCHANGED <<state, county, columns, rows, column_overrides, score,
                   auto_mappings, scan_log, batches, last_call, pc>>
    /\ UNCHANGED <<lien_call, parse_call, resolve_call, adapters, session>>

\* lines 132-159: a later fetch on the same adapter; line 143 binds
\* self._detected_mappings to a new dict
Refetch ==
    /\ pc = "fetched"
    /\ Len(batches) = 1
    /\ \E auto \in {DetectColumnMappings(columns, score)} :
       \E final \in {ApplyOverrides(auto.mappings, column_overrides, columns)} :
          /\ auto_mappings' = auto.mappings
          /\ scan_log' = auto.log
          /\ detected_mappings' = final
          /\ batches' =
                Append(batches,
                       LienBatch(TransformDataframe(rows, final, columns, state, county),
                                 FilePath, Today, state, county))
    /\ last_call' = [op |-> "fetch", src |-> 0, args |-> <<>>]
    /\ fetch_call' = [k \in 1..Len(fetch_call) |-> [fetch_call[k] EXCEPT !.alias = FALSE]]
    /\ UNCHANGED <<state, county, columns, rows, column_overrides, score, pc>>
    /\ UNCHANGED <<lien_call, parse_call, resolve_call, adapters, session>>

NextIntrospect == Fetch \/ GetDetectedMappings \/ EditReturned \/ Refetch

\* a fetch, then the getter, edits of what it returned, and a later fetch
SpecIntrospect == InitIntrospect /\ [][NextIntrospect]_vars

\* the overrides whose header is not an observed column
UnobservedOverrides == {o \in Range(column_overrides) : o[1] \notin Range(columns)}

\* C30: get_detected_mappings returns a copy: changing the returned mapping
\* never changes the adapter's mapping, the result of get_unmapped_columns
\* or the result of a later fetch; after fetch the mapping is the automatic
\* mapping with the applied overrides, and an override whose header is not an
\* observed column is not in it.
C30_IntrospectionReadOnly ==
    pc = "fetched" =>
        /\ detected_mappings = ApplyOverrides(auto_mappings, column_overrides, columns)
        /\ \A o \in UnobservedOverrides : o[1] \notin DictKeys(detected_mappings)
        /\ fetch_call # <<>> =>
              /\ fetch_call[1].got = detected_mappings
              /\ UnmappedHeaders = Range(columns) \ DictKeys(fetch_call[1].got)
        /\ Len(batches) = 2 => batches[2] = batches[1]

\* C30 witness: the caller changed the mapping it got, the adapter has an
\* override for a header the file does not have and a non-empty mapping, and
\* a later fetch returned
C30_Witness ==
    /\ pc = "fetched"
    /\ fetch_call # <<>>
    /\ fetch_call[1].value # fetch_call[1].got
    /\ UnobservedOverrides # {}
    /\ detected_mappings # <<>>
    /\ Len(batches) = 2

\* an applied override is in the mapping the caller got, and the caller's
\* edit did not reach the adapter
C30_WitnessApplied ==
    /\ pc = "fetched"
    /\ fetch_call # <<>>
    /\ fetch_call[1].value = <<>>
    /\ \E o \in AppliedOverrides :
          /\ o[1] \in DictKeys(auto_mappings)
          /\ DictGet(auto_mappings, o[1]) # o[2]
          /\ DictGet(fetch_call[1].got, o[1]) = o[2]
    /\ Len(batches) = 2 /\ batches[2].liens # <<>>

====
